---------------------------- MODULE Spec2Model ----------------------------
(***************************************************************************)
(* State-machine model of the governance contracts of dao-terra.  The      *)
(* fungible governance engine (dao-gov) is src/dao-gov/src/contract.rs and *)
(* src/dao-gov/src/execute.rs.                                             *)
(*                                                                         *)
(* One action per entry point of `execute` (contract.rs:60-100).  A step   *)
(* is one transaction: the handler runs on the storage, then the messages  *)
(* of its Response are dispatched depth-first in order; if the handler or  *)
(* any dispatched message fails the whole transaction is reverted: a       *)
(* failed call is a stuttering step, and its error is the err field of the *)
(* handler's result on the current state.                                  *)
(*                                                                         *)
(* Eight specifications share these actions and differ in the inputs the   *)
(* environment sends: Spec (one poll, two stakers), SpecExec (one poll     *)
(* with external payloads), SpecTwo (two polls, one payload calling the    *)
(* engine itself), SpecOnce (two polls, an external payload and a call of  *)
(* the engine itself), SpecLock (two polls, one staker voting on both),    *)
(* SpecBacked (stakes, votes and direct transfers of the token to the      *)
(* engine), SpecConfig (an owner changing the configuration) and SpecE3    *)
(* (the amounts of the withdraw-locking scenario: stake 100, vote 60).     *)
(*                                                                         *)
(* The membership token (src/dao-cw721/src/execute.rs) is the variable nft *)
(* with the actions of SpecNft.  The non-fungible governance engine is the *)
(* variable nge: its messages are declared in src/dao-gov/src/msg.rs, its  *)
(* handlers follow sections 4.1 and 4.4 of the specification.  SpecNge     *)
(* (two members, no delegation), SpecDelegate (two members delegating to   *)
(* each other), SpecCascade (three members, two of them delegating to the  *)
(* third) and SpecRecast (a delegate voting, cancelling and voting again)  *)
(* drive it; its UpdateConfig message is not modelled.                     *)
(*                                                                         *)
(* Option<T> is modelled as a sequence: None == <<>>, Some(v) == <<v>>.    *)
(* Addresses are abstract identifiers; addr_canonicalize / addr_humanize   *)
(* are mutually inverse on them and are not represented.                   *)
(***************************************************************************)
EXTENDS Integers, Sequences, FiniteSets, TLC

\* ------------------------------------------------------------------ bounds
MaxHeight == 4
MaxPolls == 2
MaxBalance == 4
MaxCallDepth == 3
MaxConfigUpdates == 1
MaxNgeBalance == 4
MaxNgePolls == 1
MaxNgeHeight == 3
MaxLocked == 2
MaxNgeTally == 4

\* --------------------------------------------------------------- addresses
GOV == "gov"
CW20 == "cw20"
CW20B == "cw20b"
EXT == "ext"
Users == {"u1", "u2"}
Tokens == {CW20, CW20B}

None == <<>>
Some(v) == <<v>>
IsSome(o) == o # <<>>
Unwrap(o) == o[1]

\* Decimal values are kept as exact fractions num/den with den dividing 10^18.
Dec(n, d) == [num |-> n, den |-> d]

VARIABLES
    height,         \* env.block.height
    config,         \* Config singleton
    state,          \* State singleton (poll_count, total_share, total_deposit)
    polls,          \* poll_store: sequence indexed by poll id
    poll_indexer,   \* poll_indexer_store: set of <<status, poll_id>>
    bank,           \* bank_store: account -> TokenManager (exists = key present)
    voters,         \* poll_voter_store: set of [poll_id, voter, vote, balance]
    tmp_poll_id,    \* scratch slot written by store_tmp_poll_id
    token_balance,  \* balance the engine holds in each cw20 token contract
    ext_log,        \* effects of executed payloads on the external contract
    n_updates,      \* number of successful update_config calls (bounded)
    nft,            \* storage of the membership token contract (dao-cw721)
    nge             \* storage of the non-fungible governance engine

vars == <<height, config, state, polls, poll_indexer, bank, voters, tmp_poll_id,
          token_balance, ext_log, n_updates, nft, nge>>

\* The variables of the fungible governance engine and its environment.
fge_vars == <<height, config, state, polls, poll_indexer, bank, voters, tmp_poll_id,
              token_balance, ext_log, n_updates>>

\* The storage and the environment a transaction can change, as one record.
World == [config |-> config, state |-> state, polls |-> polls,
          poll_indexer |-> poll_indexer, bank |-> bank, voters |-> voters,
          tmp_poll_id |-> tmp_poll_id, token_balance |-> token_balance,
          ext_log |-> ext_log]

\* Result<Response, ContractError> of a handler: err = "" is Ok.
\* info carries the handler's distinguishing attribute (end_poll's rejected_reason).
Ok(w, msgs) == [err |-> "", w |-> w, msgs |-> msgs, info |-> ""]
Err(w, e) == [err |-> e, w |-> w, msgs |-> <<>>, info |-> ""]

\* ------------------------------------------------------------- arithmetic
\* Uint128::multiply_ratio(a, num, den) = floor(a * num / den); the caller
\* guards den = 0 (a panic).
multiply_ratio(a, num, den) == (a * num) \div den

\* Decimal::from_ratio(n, d) < q.  from_ratio floors n * 10^18 / d and q is an
\* integer number of 10^-18 units, so floor(x) < q <=> x < q <=> n * q.den < q.num * d.
decimal_lt(n, d, q) == n * q.den < q.num * d

\* Decimal::from_ratio(n, d) > t.  floor(n * 10^18 / d) > t <=> n * 10^18 / d >= t + 1
\* <=> 10^18 * (n * t.den - t.num * d) >= t.den * d; for d * t.den <= 10^18 (all
\* amounts of the model) this is n * t.den - t.num * d >= 1.
decimal_gt(n, d, t) == n * t.den > t.num * d

\* Decimal > Decimal::one()
decimal_gt_one(q) == q.num > q.den

TokenManagerDefault == [exists |-> FALSE, share |-> 0, locked_balance |-> <<>>]

RECURSIVE SeqMax(_)
SeqMax(s) == IF s = <<>> THEN 0
             ELSE LET m == SeqMax(Tail(s)) IN IF Head(s) > m THEN Head(s) ELSE m

\* Stable insertion sort of execute payloads by `order` (Vec::sort is stable).
RECURSIVE SortByOrder(_)
InsertByOrder(x, s) ==
    LET RECURSIVE Ins(_)
        Ins(t) == IF t = <<>> THEN <<x>>
                  ELSE IF Head(t).order <= x.order THEN <<Head(t)>> \o Ins(Tail(t))
                  ELSE <<x>> \o t
    IN Ins(s)
SortByOrder(s) == IF s = <<>> THEN <<>>
                  ELSE LET n == Len(s) IN
                       InsertByOrder(s[n], SortByOrder(SubSeq(s, 1, n - 1)))


\* ------------------------------------------------------------- storage
query_token_balance(w) == w.token_balance[w.config.cw20_token]

bank_may_load(w, key) == IF w.bank[key].exists THEN w.bank[key] ELSE TokenManagerDefault

bank_save(w, key, tm) ==
    [w EXCEPT !.bank[key] = [exists |-> TRUE, share |-> tm.share,
                             locked_balance |-> tm.locked_balance]]

poll_exists(w, poll_id) == poll_id \in DOMAIN w.polls

poll_voter_exists(w, poll_id, voter) ==
    \E r \in w.voters : r.poll_id = poll_id /\ r.voter = voter

poll_voter_remove(vs, poll_id, voter) ==
    {r \in vs : ~(r.poll_id = poll_id /\ r.voter = voter)}

poll_voter_save(vs, poll_id, voter, vote_info) ==
    poll_voter_remove(vs, poll_id, voter)
        \cup {[poll_id |-> poll_id, voter |-> voter,
               vote |-> vote_info.vote, balance |-> vote_info.balance]}

\* ------------------------------------------------------------ instantiate
validate_quorum(quorum) == ~decimal_gt_one(quorum)

validate_threshold(threshold) == ~decimal_gt_one(threshold)

\* instantiate (contract.rs:25-57): the Config and State it stores.
instantiate(sender, msg) ==
    [config |-> [cw20_token |-> msg.cw20_token, owner |-> sender,
                 quorum |-> msg.quorum, threshold |-> msg.threshold,
                 voting_period |-> msg.voting_period,
                 timelock_period |-> msg.timelock_period,
                 proposal_deposit |-> msg.proposal_deposit,
                 snapshot_period |-> msg.snapshot_period],
     state |-> [contract_addr |-> GOV, poll_count |-> 0,
                total_share |-> 0, total_deposit |-> 0]]

\* --------------------------------------------------------------- staking
\* Mutant: the share is credited to the account and not to state.total_share.
stake_voting_tokens_NoTotal(w, sender, amount) ==
    IF amount = 0 THEN Err(w, "InsufficientFunds")
    ELSE IF query_token_balance(w) < w.state.total_deposit + amount
    THEN Err(w, "Overflow")
    ELSE
      LET token_manager == bank_may_load(w, sender)
          total_balance == query_token_balance(w) - (w.state.total_deposit + amount)
          share == IF total_balance = 0 \/ w.state.total_share = 0
                   THEN amount
                   ELSE multiply_ratio(amount, w.state.total_share, total_balance)
          tm2 == [token_manager EXCEPT !.share = @ + share]
      IN Ok(bank_save(w, sender, tm2), <<>>)

\* Mutant: total_balance includes the incoming transfer.
stake_voting_tokens_AfterTransfer(w, sender, amount) ==
    IF amount = 0 THEN Err(w, "InsufficientFunds")
    ELSE IF query_token_balance(w) < w.state.total_deposit + amount
    THEN Err(w, "Overflow")
    ELSE
      LET token_manager == bank_may_load(w, sender)
          total_balance == query_token_balance(w) - w.state.total_deposit
          share == IF total_balance = 0 \/ w.state.total_share = 0
                   THEN amount
                   ELSE multiply_ratio(amount, w.state.total_share, total_balance)
          tm2 == [token_manager EXCEPT !.share = @ + share]
          w1 == [w EXCEPT !.state.total_share = @ + share]
      IN Ok(bank_save(w1, sender, tm2), <<>>)

stake_voting_tokens(w, sender, amount) ==
    IF amount = 0 THEN Err(w, "InsufficientFunds")
    ELSE IF query_token_balance(w) < w.state.total_deposit + amount
    THEN Err(w, "Overflow")
    ELSE
      LET token_manager == bank_may_load(w, sender)
          total_balance == query_token_balance(w) - (w.state.total_deposit + amount)
          share == IF total_balance = 0 \/ w.state.total_share = 0
                   THEN amount
                   ELSE multiply_ratio(amount, w.state.total_share, total_balance)
          tm2 == [token_manager EXCEPT !.share = @ + share]
          w1 == [w EXCEPT !.state.total_share = @ + share]
      IN Ok(bank_save(w1, sender, tm2), <<>>)

\* ------------------------------------------------------------- create_poll
\* Mutant: the deposit is not compared with config.proposal_deposit.
create_poll_NoDepositCheck(w, h, proposer, deposit_amount, execute_msgs) ==
      LET poll_id == w.state.poll_count + 1
          new_poll == [id |-> poll_id, creator |-> proposer, status |-> "InProgress",
                       yes_votes |-> 0, no_votes |-> 0,
                       end_height |-> h + w.config.voting_period,
                       execute_data |-> execute_msgs,
                       deposit_amount |-> deposit_amount,
                       total_balance_at_end_poll |-> None,
                       staked_amount |-> None]
      IN Ok([w EXCEPT !.state.poll_count = @ + 1,
                      !.state.total_deposit = @ + deposit_amount,
                      !.polls = Append(@, new_poll),
                      !.poll_indexer = @ \cup {<<"InProgress", poll_id>>}],
            <<>>)

create_poll(w, h, proposer, deposit_amount, execute_msgs) ==
    IF deposit_amount < w.config.proposal_deposit
    THEN [Err(w, "InsufficientProposalDeposit") EXCEPT !.info = w.config.proposal_deposit]
    ELSE
      LET poll_id == w.state.poll_count + 1
          new_poll == [id |-> poll_id, creator |-> proposer, status |-> "InProgress",
                       yes_votes |-> 0, no_votes |-> 0,
                       end_height |-> h + w.config.voting_period,
                       execute_data |-> execute_msgs,
                       deposit_amount |-> deposit_amount,
                       total_balance_at_end_poll |-> None,
                       staked_amount |-> None]
      IN Ok([w EXCEPT !.state.poll_count = @ + 1,
                      !.state.total_deposit = @ + deposit_amount,
                      !.polls = Append(@, new_poll),
                      !.poll_indexer = @ \cup {<<"InProgress", poll_id>>}],
            <<>>)

\* ------------------------------------------------------------- receive_cw20
\* Mutant: the sender is not compared with config.cw20_token.
receive_cw20_AnyToken(w, h, sender, cw20_msg) ==
    IF cw20_msg.msg.type = "StakeVotingTokens"
    THEN stake_voting_tokens(w, cw20_msg.sender, cw20_msg.amount)
    ELSE IF cw20_msg.msg.type = "CreatePoll"
    THEN create_poll(w, h, cw20_msg.sender, cw20_msg.amount, cw20_msg.msg.execute_msgs)
    ELSE Err(w, "DataShouldBeGiven")

receive_cw20(w, h, sender, cw20_msg) ==
    IF w.config.cw20_token # sender THEN Err(w, "Unauthorized")
    ELSE IF cw20_msg.msg.type = "StakeVotingTokens"
    THEN stake_voting_tokens(w, cw20_msg.sender, cw20_msg.amount)
    ELSE IF cw20_msg.msg.type = "CreatePoll"
    THEN create_poll(w, h, cw20_msg.sender, cw20_msg.amount, cw20_msg.msg.execute_msgs)
    ELSE Err(w, "DataShouldBeGiven")


\* ------------------------------------------------------------ messages
TransferMsg(token, recipient, amount) ==
    [kind |-> "Transfer", contract |-> token, recipient |-> recipient, amount |-> amount]

WasmExecuteMsg(contract, msg) == [kind |-> "Execute", contract |-> contract, msg |-> msg]

\* Binary payloads, decoded: ExecuteMsg::ExecutePollMsgs{poll_id} for the engine,
\* and for the external contract a call that succeeds ("ok", recording data) or
\* fails ("fail").
ExecutePollMsgs(poll_id) == [type |-> "ExecutePollMsgs", poll_id |-> poll_id, data |-> ""]

ExtCall(type, data) == [type |-> type, poll_id |-> 0, data |-> data]

POLL_EXECUTE_REPLY_ID == 1

\* SubMsg::reply_on_error(WasmMsg::Execute{contract_addr, msg}, id)
SubMsgReplyOnError(contract, msg, id) ==
    [kind |-> "SubMsg", contract |-> contract, msg |-> msg,
     reply_on |-> "Error", id |-> id]

\* ------------------------------------------------------------ execute_poll
\* Mutant: execute_poll marks the poll Executed itself, outside the submessage.
execute_poll_SetsExecuted(w, h, poll_id) ==
    IF ~poll_exists(w, poll_id) THEN Err(w, "NotFound")
    ELSE
      LET a_poll == w.polls[poll_id] IN
      IF a_poll.status # "Passed" THEN Err(w, "PollNotPassed")
      ELSE IF a_poll.end_height + w.config.timelock_period > h
      THEN Err(w, "TimelockNotExpired")
      ELSE Ok([w EXCEPT !.tmp_poll_id = a_poll.id,
                        !.polls[poll_id].status = "Executed"],
              <<SubMsgReplyOnError(GOV, ExecutePollMsgs(poll_id), POLL_EXECUTE_REPLY_ID)>>)

execute_poll(w, h, poll_id) ==
    IF ~poll_exists(w, poll_id) THEN Err(w, "NotFound")
    ELSE
      LET a_poll == w.polls[poll_id] IN
      IF a_poll.status # "Passed" THEN Err(w, "PollNotPassed")
      ELSE IF a_poll.end_height + w.config.timelock_period > h
      THEN Err(w, "TimelockNotExpired")
      ELSE Ok([w EXCEPT !.tmp_poll_id = a_poll.id],
              <<SubMsgReplyOnError(GOV, ExecutePollMsgs(poll_id), POLL_EXECUTE_REPLY_ID)>>)

\* ---------------------------------------------------- execute_poll_messages
\* Mutant: the payloads are emitted in the order they were stored.
execute_poll_messages_Unsorted(w, sender, poll_id) ==
    IF GOV # sender THEN Err(w, "Unauthorized")
    ELSE IF ~poll_exists(w, poll_id) THEN Err(w, "NotFound")
    ELSE
      LET a_poll == w.polls[poll_id]
          w1 == [w EXCEPT !.poll_indexer = (@ \ {<<"Passed", poll_id>>})
                                               \cup {<<"Executed", poll_id>>},
                          !.polls[poll_id].status = "Executed"]
          msgs == IF IsSome(a_poll.execute_data)
                  THEN Unwrap(a_poll.execute_data)
                  ELSE <<>>
      IN Ok(w1, [i \in 1..Len(msgs) |-> WasmExecuteMsg(msgs[i].contract, msgs[i].msg)])

execute_poll_messages(w, sender, poll_id) ==
    IF GOV # sender THEN Err(w, "Unauthorized")
    ELSE IF ~poll_exists(w, poll_id) THEN Err(w, "NotFound")
    ELSE
      LET a_poll == w.polls[poll_id]
          w1 == [w EXCEPT !.poll_indexer = (@ \ {<<"Passed", poll_id>>})
                                               \cup {<<"Executed", poll_id>>},
                          !.polls[poll_id].status = "Executed"]
          msgs == IF IsSome(a_poll.execute_data)
                  THEN SortByOrder(Unwrap(a_poll.execute_data))
                  ELSE <<>>
      IN Ok(w1, [i \in 1..Len(msgs) |-> WasmExecuteMsg(msgs[i].contract, msgs[i].msg)])

\* ------------------------------------------------------------ snapshot_poll
\* oc: whether the build checks integer overflow.  `end_height - height` on u64
\* panics when it is checked and wraps to 2^64 - (height - end_height) when it
\* is not; the wrapped value exceeds every snapshot_period of the model.
snapshot_poll(w, h, poll_id, oc) ==
    IF ~poll_exists(w, poll_id) THEN Err(w, "NotFound")
    ELSE
      LET a_poll == w.polls[poll_id] IN
      IF a_poll.status # "InProgress" THEN Err(w, "PollNotInProgress")
      ELSE IF a_poll.end_height < h
      THEN (IF oc THEN Err(w, "Panic") ELSE Err(w, "SnapshotHeight"))
      ELSE IF a_poll.end_height - h > w.config.snapshot_period
      THEN Err(w, "SnapshotHeight")
      ELSE IF IsSome(a_poll.staked_amount) THEN Err(w, "SnapshotAlreadyOccurred")
      ELSE IF query_token_balance(w) < w.state.total_deposit THEN Err(w, "Overflow")
      ELSE
        LET staked_amount == query_token_balance(w) - w.state.total_deposit
        IN Ok([w EXCEPT !.polls[poll_id].staked_amount = Some(staked_amount)], <<>>)

\* ---------------------------------------------------------------- cast_vote
\* Mutant: the voter record is not looked up before the vote is counted.
cast_vote_NoAlreadyVoted(w, h, sender, poll_id, vote, amount) ==
    IF poll_id = 0 \/ w.state.poll_count < poll_id THEN Err(w, "PollNotFound")
    ELSE IF ~poll_exists(w, poll_id) THEN Err(w, "NotFound")
    ELSE
      LET a_poll == w.polls[poll_id] IN
      IF a_poll.status # "InProgress" \/ h > a_poll.end_height
      THEN Err(w, "PollNotInProgress")
      ELSE IF query_token_balance(w) < w.state.total_deposit THEN Err(w, "Overflow")
      ELSE
        LET token_manager == bank_may_load(w, sender)
            total_share == w.state.total_share
            total_balance == query_token_balance(w) - w.state.total_deposit
        IN
        IF total_share = 0 THEN Err(w, "DivideByZero")
        ELSE IF multiply_ratio(token_manager.share, total_balance, total_share) < amount
        THEN Err(w, "InsufficientFunds")
        ELSE
          LET vote_info == [vote |-> vote, balance |-> amount]
              tm2 == [token_manager EXCEPT
                        !.locked_balance = Append(@, <<poll_id, vote_info>>)]
              time_to_end == a_poll.end_height - h
              p1 == IF vote = "Yes"
                    THEN [a_poll EXCEPT !.yes_votes = @ + amount]
                    ELSE [a_poll EXCEPT !.no_votes = @ + amount]
              p2 == IF time_to_end < w.config.snapshot_period /\ ~IsSome(p1.staked_amount)
                    THEN [p1 EXCEPT !.staked_amount = Some(total_balance)]
                    ELSE p1
              w1 == bank_save(w, sender, tm2)
          IN Ok([w1 EXCEPT !.voters = poll_voter_save(@, poll_id, sender, vote_info),
                           !.polls[poll_id] = p2],
                <<>>)

cast_vote(w, h, sender, poll_id, vote, amount) ==
    IF poll_id = 0 \/ w.state.poll_count < poll_id THEN Err(w, "PollNotFound")
    ELSE IF ~poll_exists(w, poll_id) THEN Err(w, "NotFound")
    ELSE
      LET a_poll == w.polls[poll_id] IN
      IF a_poll.status # "InProgress" \/ h > a_poll.end_height
      THEN Err(w, "PollNotInProgress")
      ELSE IF poll_voter_exists(w, poll_id, sender) THEN Err(w, "AlreadyVoted")
      ELSE IF query_token_balance(w) < w.state.total_deposit THEN Err(w, "Overflow")
      ELSE
        LET token_manager == bank_may_load(w, sender)
            total_share == w.state.total_share
            total_balance == query_token_balance(w) - w.state.total_deposit
        IN
        IF total_share = 0 THEN Err(w, "DivideByZero")
        ELSE IF multiply_ratio(token_manager.share, total_balance, total_share) < amount
        THEN Err(w, "InsufficientFunds")
        ELSE
          LET vote_info == [vote |-> vote, balance |-> amount]
              tm2 == [token_manager EXCEPT
                        !.locked_balance = Append(@, <<poll_id, vote_info>>)]
              time_to_end == a_poll.end_height - h
              p1 == IF vote = "Yes"
                    THEN [a_poll EXCEPT !.yes_votes = @ + amount]
                    ELSE [a_poll EXCEPT !.no_votes = @ + amount]
              p2 == IF time_to_end < w.config.snapshot_period /\ ~IsSome(p1.staked_amount)
                    THEN [p1 EXCEPT !.staked_amount = Some(total_balance)]
                    ELSE p1
              w1 == bank_save(w, sender, tm2)
          IN Ok([w1 EXCEPT !.voters = poll_voter_save(@, poll_id, sender, vote_info),
                           !.polls[poll_id] = p2],
                <<>>)

\* ----------------------------------------------------------------- end_poll
\* staked_weight of end_poll, the quorum denominator (execute.rs:360-381).
end_poll_staked_weight(w, a_poll) ==
    IF w.state.total_share = 0 THEN 0
    ELSE IF IsSome(a_poll.staked_amount) THEN Unwrap(a_poll.staked_amount)
    ELSE query_token_balance(w) - w.state.total_deposit

\* Mutant: the deposit is refunded whether or not the quorum was reached.
end_poll_RefundAlways(w, h, poll_id) ==
    IF ~poll_exists(w, poll_id) THEN Err(w, "NotFound")
    ELSE
      LET a_poll == w.polls[poll_id]
          no == a_poll.no_votes
          yes == a_poll.yes_votes
          tallied_weight == yes + no
      IN
      IF a_poll.status # "InProgress" THEN Err(w, "PollNotInProgress")
      ELSE IF a_poll.end_height > h THEN Err(w, "PollVotingPeriod")
      ELSE IF w.state.total_share # 0 /\ ~IsSome(a_poll.staked_amount)
              /\ query_token_balance(w) < w.state.total_deposit
      THEN Err(w, "Overflow")
      ELSE
        LET staked_weight == end_poll_staked_weight(w, a_poll) IN
        IF w.state.total_share # 0 /\ staked_weight = 0 THEN Err(w, "DivideByZero")
        ELSE
          LET quorum_missed ==
                  tallied_weight = 0
                  \/ (IF w.state.total_share = 0
                      THEN decimal_lt(0, 1, w.config.quorum)
                      ELSE decimal_lt(tallied_weight, staked_weight, w.config.quorum))
              passed == ~quorum_missed /\ decimal_gt(yes, tallied_weight, w.config.threshold)
              poll_status == IF passed THEN "Passed" ELSE "Rejected"
              rejected_reason == IF quorum_missed THEN "Quorum not reached"
                                 ELSE IF passed THEN ""
                                 ELSE "Threshold not reached"
              messages == IF a_poll.deposit_amount # 0
                          THEN <<TransferMsg(w.config.cw20_token, a_poll.creator,
                                             a_poll.deposit_amount)>>
                          ELSE <<>>
          IN
          IF w.state.total_deposit < a_poll.deposit_amount THEN Err(w, "Overflow")
          ELSE
            [err |-> "",
             w |-> [w EXCEPT !.state.total_deposit = @ - a_poll.deposit_amount,
                             !.poll_indexer = (@ \ {<<"InProgress", a_poll.id>>})
                                                  \cup {<<poll_status, a_poll.id>>},
                             !.polls[poll_id].status = poll_status,
                             !.polls[poll_id].total_balance_at_end_poll = Some(staked_weight)],
             msgs |-> messages,
             info |-> rejected_reason]

end_poll(w, h, poll_id) ==
    IF ~poll_exists(w, poll_id) THEN Err(w, "NotFound")
    ELSE
      LET a_poll == w.polls[poll_id]
          no == a_poll.no_votes
          yes == a_poll.yes_votes
          tallied_weight == yes + no
      IN
      IF a_poll.status # "InProgress" THEN Err(w, "PollNotInProgress")
      ELSE IF a_poll.end_height > h THEN Err(w, "PollVotingPeriod")
      ELSE IF w.state.total_share # 0 /\ ~IsSome(a_poll.staked_amount)
              /\ query_token_balance(w) < w.state.total_deposit
      THEN Err(w, "Overflow")
      ELSE
        LET staked_weight == end_poll_staked_weight(w, a_poll) IN
        IF w.state.total_share # 0 /\ staked_weight = 0 THEN Err(w, "DivideByZero")
        ELSE
          LET quorum_missed ==
                  tallied_weight = 0
                  \/ (IF w.state.total_share = 0
                      THEN decimal_lt(0, 1, w.config.quorum)
                      ELSE decimal_lt(tallied_weight, staked_weight, w.config.quorum))
              passed == ~quorum_missed /\ decimal_gt(yes, tallied_weight, w.config.threshold)
              poll_status == IF passed THEN "Passed" ELSE "Rejected"
              rejected_reason == IF quorum_missed THEN "Quorum not reached"
                                 ELSE IF passed THEN ""
                                 ELSE "Threshold not reached"
              messages == IF ~quorum_missed /\ a_poll.deposit_amount # 0
                          THEN <<TransferMsg(w.config.cw20_token, a_poll.creator,
                                             a_poll.deposit_amount)>>
                          ELSE <<>>
          IN
          IF w.state.total_deposit < a_poll.deposit_amount THEN Err(w, "Overflow")
          ELSE
            [err |-> "",
             w |-> [w EXCEPT !.state.total_deposit = @ - a_poll.deposit_amount,
                             !.poll_indexer = (@ \ {<<"InProgress", a_poll.id>>})
                                                  \cup {<<poll_status, a_poll.id>>},
                             !.polls[poll_id].status = poll_status,
                             !.polls[poll_id].total_balance_at_end_poll = Some(staked_weight)],
             msgs |-> messages,
             info |-> rejected_reason]


\* ------------------------------------------------------------ update_config
\* Mutant: the sender is not compared with config.owner.
update_config_NoAuth(w, sender, u) ==
      LET c == w.config
          pick(opt, old) == IF IsSome(opt) THEN Unwrap(opt) ELSE old
      IN Ok([w EXCEPT !.config =
                [owner |-> pick(u.owner, c.owner),
                 cw20_token |-> pick(u.cw20_token, c.cw20_token),
                 quorum |-> pick(u.quorum, c.quorum),
                 threshold |-> pick(u.threshold, c.threshold),
                 voting_period |-> pick(u.voting_period, c.voting_period),
                 timelock_period |-> pick(u.timelock_period, c.timelock_period),
                 proposal_deposit |-> pick(u.proposal_deposit, c.proposal_deposit),
                 snapshot_period |-> pick(u.snapshot_period, c.snapshot_period)]],
            <<>>)

update_config(w, sender, u) ==
    IF w.config.owner # sender THEN Err(w, "Unauthorized")
    ELSE
      LET c == w.config
          pick(opt, old) == IF IsSome(opt) THEN Unwrap(opt) ELSE old
      IN Ok([w EXCEPT !.config =
                [owner |-> pick(u.owner, c.owner),
                 cw20_token |-> pick(u.cw20_token, c.cw20_token),
                 quorum |-> pick(u.quorum, c.quorum),
                 threshold |-> pick(u.threshold, c.threshold),
                 voting_period |-> pick(u.voting_period, c.voting_period),
                 timelock_period |-> pick(u.timelock_period, c.timelock_period),
                 proposal_deposit |-> pick(u.proposal_deposit, c.proposal_deposit),
                 snapshot_period |-> pick(u.snapshot_period, c.snapshot_period)]],
            <<>>)

\* --------------------------------------------------- compute_locked_balance
\* Sum of the elements of a sequence of numbers.
RECURSIVE SeqSum(_)
SeqSum(s) == IF s = <<>> THEN 0 ELSE Head(s) + SeqSum(Tail(s))

\* Mutant: the locked balance is the sum, not the maximum, of the retained votes.
compute_locked_balance_Sum(w, token_manager, voter) ==
    LET InProgress(e) == w.polls[e[1]].status = "InProgress"
        retained == SelectSeq(token_manager.locked_balance, InProgress)
        dropped == {token_manager.locked_balance[i][1] :
                       i \in {j \in DOMAIN token_manager.locked_balance :
                                 ~InProgress(token_manager.locked_balance[j])}}
    IN [locked_balance |-> retained,
        voters |-> {r \in w.voters : ~(r.voter = voter /\ r.poll_id \in dropped)},
        max |-> SeqSum([i \in DOMAIN retained |-> retained[i][2].balance])]

\* Returns the retained locked_balance, the voter store after the removals and
\* the maximum balance over the retained entries.
compute_locked_balance(w, token_manager, voter) ==
    LET InProgress(e) == w.polls[e[1]].status = "InProgress"
        retained == SelectSeq(token_manager.locked_balance, InProgress)
        dropped == {token_manager.locked_balance[i][1] :
                       i \in {j \in DOMAIN token_manager.locked_balance :
                                 ~InProgress(token_manager.locked_balance[j])}}
    IN [locked_balance |-> retained,
        voters |-> {r \in w.voters : ~(r.voter = voter /\ r.poll_id \in dropped)},
        max |-> SeqMax([i \in DOMAIN retained |-> retained[i][2].balance])]

\* --------------------------------------------------- withdraw_voting_tokens
\* amount: None or Some(v).  oc: whether the build checks integer overflow.
\* `user_share - locked_share` with locked_share > user_share panics when it is
\* checked; when it wraps, withdraw_share = 2^128 - k, the guard
\* locked_share + withdraw_share wraps to user_share and passes, and the
\* transfer of (withdraw_share * total_balance mod 2^128) / total_share tokens
\* exceeds every balance, so the token rejects it and the transaction reverts.
\* Mutant: the guard compares withdraw_share alone with user_share.
withdraw_voting_tokens_NoLockCheck(w, sender, amount, oc) ==
    IF ~w.bank[sender].exists THEN Err(w, "NothingStaked")
    ELSE IF query_token_balance(w) < w.state.total_deposit THEN Err(w, "Overflow")
    ELSE
      LET token_manager == w.bank[sender]
          total_share == w.state.total_share
          total_balance == query_token_balance(w) - w.state.total_deposit
          clb == compute_locked_balance(w, token_manager, sender)
          locked_balance == clb.max
          user_share == token_manager.share
      IN
      IF total_balance = 0 THEN Err(w, "DivideByZero")
      ELSE
        LET locked_share == (locked_balance * total_share) \div total_balance IN
        IF ~IsSome(amount) /\ locked_share > user_share
        THEN (IF oc THEN Err(w, "Panic") ELSE Err(w, "TransferFailed"))
        ELSE IF ~IsSome(amount) /\ total_share = 0 THEN Err(w, "DivideByZero")
        ELSE
          LET withdraw_share ==
                  IF IsSome(amount)
                  THEN LET r == multiply_ratio(Unwrap(amount), total_share, total_balance)
                       IN IF r > 1 THEN r ELSE 1
                  ELSE user_share - locked_share
              withdraw_amount ==
                  IF IsSome(amount) THEN Unwrap(amount)
                  ELSE (withdraw_share * total_balance) \div total_share
          IN
          IF withdraw_share > user_share
          THEN Err(w, "InvalidWithdrawAmount")
          ELSE
            LET tm2 == [token_manager EXCEPT !.share = user_share - withdraw_share,
                                             !.locked_balance = clb.locked_balance]
                w1 == bank_save([w EXCEPT !.voters = clb.voters], sender, tm2)
            IN Ok([w1 EXCEPT !.state.total_share = total_share - withdraw_share],
                  <<TransferMsg(w.config.cw20_token, sender, withdraw_amount)>>)

withdraw_voting_tokens(w, sender, amount, oc) ==
    IF ~w.bank[sender].exists THEN Err(w, "NothingStaked")
    ELSE IF query_token_balance(w) < w.state.total_deposit THEN Err(w, "Overflow")
    ELSE
      LET token_manager == w.bank[sender]
          total_share == w.state.total_share
          total_balance == query_token_balance(w) - w.state.total_deposit
          clb == compute_locked_balance(w, token_manager, sender)
          locked_balance == clb.max
          user_share == token_manager.share
      IN
      IF total_balance = 0 THEN Err(w, "DivideByZero")
      ELSE
        LET locked_share == (locked_balance * total_share) \div total_balance IN
        IF ~IsSome(amount) /\ locked_share > user_share
        THEN (IF oc THEN Err(w, "Panic") ELSE Err(w, "TransferFailed"))
        ELSE IF ~IsSome(amount) /\ total_share = 0 THEN Err(w, "DivideByZero")
        ELSE
          LET withdraw_share ==
                  IF IsSome(amount)
                  THEN LET r == multiply_ratio(Unwrap(amount), total_share, total_balance)
                       IN IF r > 1 THEN r ELSE 1
                  ELSE user_share - locked_share
              withdraw_amount ==
                  IF IsSome(amount) THEN Unwrap(amount)
                  ELSE (withdraw_share * total_balance) \div total_share
          IN
          IF locked_share + withdraw_share > user_share
          THEN Err(w, "InvalidWithdrawAmount")
          ELSE
            LET tm2 == [token_manager EXCEPT !.share = user_share - withdraw_share,
                                             !.locked_balance = clb.locked_balance]
                w1 == bank_save([w EXCEPT !.voters = clb.voters], sender, tm2)
            IN Ok([w1 EXCEPT !.state.total_share = total_share - withdraw_share],
                  <<TransferMsg(w.config.cw20_token, sender, withdraw_amount)>>)


\* ----------------------------------------------------------------- dispatch
\* The host's processing of a Response: messages run in order, each with the
\* messages of its own Response (depth-first); a failure anywhere fails the
\* caller.  Messages the engine emits carry sender = GOV.  A self-call deeper
\* than MaxCallDepth runs out of gas.
RECURSIVE RunMsgs(_, _, _)
RunMsg(m, w, depth) ==
    IF m.kind = "Transfer"
    THEN IF w.token_balance[m.contract] >= m.amount
         THEN [ok |-> TRUE,
               w |-> [w EXCEPT !.token_balance[m.contract] = @ - m.amount]]
         ELSE [ok |-> FALSE, w |-> w]
    ELSE IF m.contract = EXT
    THEN IF m.msg.type = "ok"
         THEN [ok |-> TRUE, w |-> [w EXCEPT !.ext_log = Append(@, m.msg.data)]]
         ELSE [ok |-> FALSE, w |-> w]
    ELSE IF m.contract = GOV /\ m.msg.type = "ExecutePollMsgs"
    THEN IF depth >= MaxCallDepth THEN [ok |-> FALSE, w |-> w]
         ELSE LET r == execute_poll_messages(w, GOV, m.msg.poll_id) IN
              IF r.err # "" THEN [ok |-> FALSE, w |-> w]
              ELSE RunMsgs(r.msgs, r.w, depth + 1)
    ELSE [ok |-> FALSE, w |-> w]

RunMsgs(msgs, w, depth) ==
    IF msgs = <<>> THEN [ok |-> TRUE, w |-> w]
    ELSE LET first == RunMsg(Head(msgs), w, depth) IN
         IF ~first.ok THEN [ok |-> FALSE, w |-> w]
         ELSE RunMsgs(Tail(msgs), first.w, depth)

\* A transaction: the handler's result r, then its messages.  A reply-on-error
\* submessage that fails has its changes discarded and the error is delivered to
\* the contract's `reply` entry point; contract.rs exports instantiate, execute
\* and query only, so the delivery fails and the transaction is reverted like
\* any other failure.
Transaction(r) ==
    IF r.err # "" THEN [ok |-> FALSE, w |-> World]
    ELSE LET d == RunMsgs(r.msgs, r.w, 0) IN
         IF d.ok THEN d ELSE [ok |-> FALSE, w |-> World]

\* The storage after the transaction of the handler result r.
Commit(r) ==
    LET w2 == Transaction(r).w
    IN /\ config' = w2.config
       /\ state' = w2.state
       /\ polls' = w2.polls
       /\ poll_indexer' = w2.poll_indexer
       /\ bank' = w2.bank
       /\ voters' = w2.voters
       /\ tmp_poll_id' = w2.tmp_poll_id
       /\ token_balance' = w2.token_balance
       /\ ext_log' = w2.ext_log

\* ================================================ membership token (dao-cw721)
\* src/dao-cw721/src/execute.rs.  The storage is one record: the administrative
\* owner, the gov_contract item, the token count, and tokens: token id ->
\* None or Some([owner |-> address]).  Results are [err, n, msgs].
TokenIds == {"A", "B", "C"}

Addresses == Users \cup {EXT, GOV}

NftOk(n, msgs) == [err |-> "", n |-> n, msgs |-> msgs]
NftErr(n, e) == [err |-> e, n |-> n, msgs |-> <<>>]

\* instantiate saves contract_info and owner; it does not save gov_contract,
\* and no handler of `execute` does.
cw721_instantiate(owner) ==
    [owner |-> owner, gov_contract |-> None, token_count |-> 0,
     tokens |-> [t \in TokenIds |-> None]]

cw721_mint(n, sender, token_id, token_owner) ==
    IF sender # n.owner THEN NftErr(n, "Unauthorized")
    ELSE IF IsSome(n.tokens[token_id]) THEN NftErr(n, "Claimed")
    ELSE NftOk([n EXCEPT !.tokens[token_id] = Some([owner |-> token_owner]),
                         !.token_count = @ + 1],
               <<>>)

cw721_transfer_nft(n, sender, recipient, token_id) ==
    IF sender # n.owner THEN NftErr(n, "Unauthorized")
    ELSE IF ~IsSome(n.tokens[token_id]) THEN NftErr(n, "NotFound")
    ELSE NftOk([n EXCEPT !.tokens[token_id] = Some([owner |-> recipient])], <<>>)

\* Cw721ReceiveMsg{sender, token_id, msg}.into_cosmos_msg(gov_contract)
ReceiveNftMsg(contract, sender, token_id, msg) ==
    [kind |-> "Execute", contract |-> contract,
     msg |-> [type |-> "ReceiveNft", sender |-> sender, token_id |-> token_id,
              msg |-> msg]]

\* tokens.load, then gov_contract.load, then the comparison with the sender.
cw721_execute_dao(n, sender, token_id, msg) ==
    IF ~IsSome(n.tokens[token_id]) THEN NftErr(n, "NotFound")
    ELSE IF ~IsSome(n.gov_contract) THEN NftErr(n, "NotFound")
    ELSE IF Unwrap(n.tokens[token_id]).owner # sender THEN NftErr(n, "Unauthorized")
    ELSE NftOk(n, <<ReceiveNftMsg(Unwrap(n.gov_contract), sender, token_id, msg)>>)

\* ------------------------------------- non-fungible governance engine (NGE)
\* The handlers of the engine driven by the membership token.  The message
\* declarations are src/dao-gov/src/msg.rs; the handlers follow the
\* specification's sections 4.1 (share bank: mint, burn, locked-vote
\* reduction) and 4.4 (the engine).  Its storage is the record nge; a
\* member is identified by its token id.
NFT == "nft"
Members == TokenIds

NgeOk(g) == [err |-> "", g |-> g, info |-> ""]
NgeErr(g, e) == [err |-> e, g |-> g, info |-> ""]

\* The integer square root: the largest r with r * r <= n.
isqrt(n) == CHOOSE r \in 0..n : r * r <= n /\ (r + 1) * (r + 1) > n

NgeBankDefault == [exists |-> FALSE, share |-> 0, balance |-> 0, locked_share |-> <<>>,
                   delegate_to |-> None, delegated_from |-> <<>>]

NgeInstantiateMsg == [cw721_token |-> NFT, quorum |-> Dec(1, 2), threshold |-> Dec(1, 2),
                      voting_period |-> 1]

\* Instantiate (NGE): the sender becomes owner.
nge_instantiate(sender, msg) ==
    [config |-> [owner |-> sender, cw721_token |-> msg.cw721_token,
                 quorum |-> msg.quorum, threshold |-> msg.threshold,
                 voting_period |-> msg.voting_period],
     state |-> [poll_count |-> 0, total_share |-> 0],
     polls |-> <<>>,
     bank |-> [m \in Members |-> NgeBankDefault],
     voters |-> {}]

nge_poll_exists(g, poll_id) == poll_id \in DOMAIN g.polls

nge_poll_voter(g, poll_id, voter) ==
    {r \in g.voters : r.poll_id = poll_id /\ r.voter = voter}

\* get_or_default followed by a save: the entry exists from then on.
nge_bank_save(g, key, tm) == [g EXCEPT !.bank[key] = [tm EXCEPT !.exists = TRUE]]

\* locked-vote reduction(entry, voter_key): retain the entries whose poll is
\* InProgress, remove the voter mapping of the discarded ones, and return the
\* maximum balance of the retained entries (0 if none).
nge_locked_vote_reduction(g, key) ==
    LET entry == g.bank[key]
        InProgress(e) == g.polls[e.poll_id].status = "InProgress"
        retained == SelectSeq(entry.locked_share, InProgress)
        discarded == {entry.locked_share[i].poll_id : i \in
                         {j \in DOMAIN entry.locked_share : ~InProgress(entry.locked_share[j])}}
    IN [g |-> [g EXCEPT !.bank[key].locked_share = retained,
                        !.voters = {r \in @ : ~(r.voter = key /\ r.poll_id \in discarded)}],
        locked |-> SeqMax([i \in DOMAIN retained |-> retained[i].balance])]

\* Mutant: the old share stays in state.total_share.
nge_bank_mint_KeepsOldShare(g, recipient_id, amount) ==
    LET entry == g.bank[recipient_id]
        balance == entry.balance + amount
        share == isqrt(balance)
    IN nge_bank_save([g EXCEPT !.state.total_share = @ + share],
                     recipient_id,
                     [entry EXCEPT !.balance = balance, !.share = share])

\* mint(recipient_id, amount): subtract the old share from state.total_share,
\* add amount to balance, set share = isqrt(balance), add the new share.
nge_bank_mint(g, recipient_id, amount) ==
    LET entry == g.bank[recipient_id]
        balance == entry.balance + amount
        share == isqrt(balance)
    IN nge_bank_save([g EXCEPT !.state.total_share = (@ - entry.share) + share],
                     recipient_id,
                     [entry EXCEPT !.balance = balance, !.share = share])

\* Mutant: the burn leaves state.total_share as it is.
nge_bank_burn_NoReconcile(g, account_id, amount) ==
    LET red == nge_locked_vote_reduction(g, account_id)
        g1 == red.g
        entry == g1.bank[account_id]
        locked_amount == red.locked * red.locked
    IN IF locked_amount + amount > entry.balance THEN NgeErr(g, "InvalidWithdrawAmount")
       ELSE LET balance == entry.balance - amount
                share == isqrt(balance)
            IN NgeOk(nge_bank_save(g1, account_id,
                                   [entry EXCEPT !.balance = balance, !.share = share]))

\* burn(account_id, amount): locked_amount = (locked-vote reduction)^2; fail with
\* InvalidWithdrawAmount when locked_amount + amount > balance; then decrement
\* balance, recompute share and reconcile state.total_share.
nge_bank_burn(g, account_id, amount) ==
    LET red == nge_locked_vote_reduction(g, account_id)
        g1 == red.g
        entry == g1.bank[account_id]
        locked_amount == red.locked * red.locked
    IN IF locked_amount + amount > entry.balance THEN NgeErr(g, "InvalidWithdrawAmount")
       ELSE LET balance == entry.balance - amount
                share == isqrt(balance)
            IN NgeOk(nge_bank_save([g1 EXCEPT !.state.total_share = (@ - entry.share) + share],
                                   account_id,
                                   [entry EXCEPT !.balance = balance, !.share = share]))

\* ExecuteMsg::Mint{recipient, amount}: only owner; amount > 0.
nge_mint(g, sender, recipient, amount) ==
    IF sender # g.config.owner THEN NgeErr(g, "Unauthorized")
    ELSE IF amount = 0 THEN NgeErr(g, "InsufficientFunds")
    ELSE NgeOk(nge_bank_mint(g, recipient, amount))

\* ExecuteMsg::TransferFrom{owner, recipient, amount}: only owner; amount > 0;
\* burn(owner_id, amount) followed by mint(recipient_id, amount).
nge_transfer_from(g, sender, owner_id, recipient, amount) ==
    IF sender # g.config.owner THEN NgeErr(g, "Unauthorized")
    ELSE IF amount = 0 THEN NgeErr(g, "InsufficientFunds")
    ELSE LET b == nge_bank_burn(g, owner_id, amount) IN
         IF b.err # "" THEN NgeErr(g, b.err)
         ELSE NgeOk(nge_bank_mint(b.g, recipient, amount))

\* exit(sender_id): burn the sender's entire balance.
nge_exit(g, sender_id) ==
    nge_bank_burn(g, sender_id, g.bank[sender_id].balance)

\* create_poll(sender_id, ...): id = poll_count + 1, total_share_at_start_poll =
\* state.total_share, end_height = current block + voting_period, InProgress.
nge_create_poll(g, h, sender_id) ==
    LET poll_id == g.state.poll_count + 1
        new_poll == [id |-> poll_id, creator |-> sender_id, status |-> "InProgress",
                     yes_votes |-> 0, no_votes |-> 0,
                     end_height |-> h + g.config.voting_period,
                     total_share_at_start_poll |-> g.state.total_share,
                     total_share_at_end_poll |-> None]
    IN NgeOk([g EXCEPT !.state.poll_count = poll_id,
                       !.polls = Append(@, new_poll)])

\* cast_single_vote(voter_key, poll, option): amount = the account's current
\* share; increment the tally, append (poll_id, {option, amount}) to the
\* account's locked_share and write the voter record.
nge_cast_single_vote(g, voter_key, poll_id, vote) ==
    LET amount == g.bank[voter_key].share
        entry == [poll_id |-> poll_id, vote |-> vote, balance |-> amount]
        g1 == IF vote = "Yes" THEN [g EXCEPT !.polls[poll_id].yes_votes = @ + amount]
              ELSE [g EXCEPT !.polls[poll_id].no_votes = @ + amount]
        g2 == nge_bank_save(g1, voter_key,
                            [g1.bank[voter_key] EXCEPT !.locked_share = Append(@, entry)])
    IN [g2 EXCEPT !.voters = (@ \ nge_poll_voter(g2, poll_id, voter_key))
                                \cup {[poll_id |-> poll_id, voter |-> voter_key,
                                       vote |-> vote, balance |-> amount]}]

\* cast_single_vote for each delegator of the sequence, in order.
RECURSIVE nge_cast_for_delegators(_, _, _, _)
nge_cast_for_delegators(g, delegators, poll_id, vote) ==
    IF delegators = <<>> THEN g
    ELSE nge_cast_for_delegators(nge_cast_single_vote(g, Head(delegators), poll_id, vote),
                                 Tail(delegators), poll_id, vote)

\* Mutant: the votes of the delegators are not cast.
nge_cast_vote_NoCascade(g, h, voter_id, poll_id, vote) ==
    IF ~nge_poll_exists(g, poll_id) THEN NgeErr(g, "PollNotFound")
    ELSE IF g.polls[poll_id].status # "InProgress" \/ h > g.polls[poll_id].end_height
    THEN NgeErr(g, "PollNotInProgress")
    ELSE IF nge_poll_voter(g, poll_id, voter_id) # {} THEN NgeErr(g, "AlreadyVoted")
    ELSE IF IsSome(g.bank[voter_id].delegate_to) THEN NgeErr(g, "AlreadyDelegated")
    ELSE NgeOk(nge_cast_single_vote(g, voter_id, poll_id, vote))

\* cast_vote(voter_id, poll_id, vote): PollNotFound, PollNotInProgress,
\* AlreadyVoted, AlreadyDelegated in this order; then the voter's own share
\* and the share of every member of its delegated_from, with the same option.
nge_cast_vote(g, h, voter_id, poll_id, vote) ==
    IF ~nge_poll_exists(g, poll_id) THEN NgeErr(g, "PollNotFound")
    ELSE IF g.polls[poll_id].status # "InProgress" \/ h > g.polls[poll_id].end_height
    THEN NgeErr(g, "PollNotInProgress")
    ELSE IF nge_poll_voter(g, poll_id, voter_id) # {} THEN NgeErr(g, "AlreadyVoted")
    ELSE IF IsSome(g.bank[voter_id].delegate_to) THEN NgeErr(g, "AlreadyDelegated")
    ELSE LET g1 == nge_cast_single_vote(g, voter_id, poll_id, vote) IN
         NgeOk(nge_cast_for_delegators(g1, g.bank[voter_id].delegated_from, poll_id, vote))

\* Mutant: the tally is decremented by the voter's current share.
nge_cancel_vote_CurrentShare(g, h, voter_id, poll_id) ==
    IF nge_poll_voter(g, poll_id, voter_id) = {} THEN NgeErr(g, "NotYetVoted")
    ELSE IF g.polls[poll_id].status # "InProgress" \/ h > g.polls[poll_id].end_height
    THEN NgeErr(g, "PollNotInProgress")
    ELSE
      LET vote_info == CHOOSE r \in nge_poll_voter(g, poll_id, voter_id) : TRUE
          amount == g.bank[voter_id].share
          tally == IF vote_info.vote = "Yes" THEN g.polls[poll_id].yes_votes
                   ELSE g.polls[poll_id].no_votes
          red == nge_locked_vote_reduction(g, voter_id)
          Others(e) == e.poll_id # poll_id
          g1 == [red.g EXCEPT !.bank[voter_id].locked_share = SelectSeq(@, Others)]
          g2 == IF vote_info.vote = "Yes"
                THEN [g1 EXCEPT !.polls[poll_id].yes_votes = @ - amount]
                ELSE [g1 EXCEPT !.polls[poll_id].no_votes = @ - amount]
      IN IF tally < amount THEN NgeErr(g, "Overflow")
         ELSE NgeOk([g2 EXCEPT !.voters = @ \ nge_poll_voter(g, poll_id, voter_id)])

\* cancel_vote(voter_id, poll_id): NotYetVoted without a voter record; the poll
\* must be InProgress and not expired; decrement the tally of the recorded
\* option by the recorded balance, remove the locked_share entry of this poll
\* (and the entries of terminated polls) and delete the voter record.
nge_cancel_vote(g, h, voter_id, poll_id) ==
    IF nge_poll_voter(g, poll_id, voter_id) = {} THEN NgeErr(g, "NotYetVoted")
    ELSE IF g.polls[poll_id].status # "InProgress" \/ h > g.polls[poll_id].end_height
    THEN NgeErr(g, "PollNotInProgress")
    ELSE
      LET vote_info == CHOOSE r \in nge_poll_voter(g, poll_id, voter_id) : TRUE
          amount == vote_info.balance
          tally == IF vote_info.vote = "Yes" THEN g.polls[poll_id].yes_votes
                   ELSE g.polls[poll_id].no_votes
          red == nge_locked_vote_reduction(g, voter_id)
          Others(e) == e.poll_id # poll_id
          g1 == [red.g EXCEPT !.bank[voter_id].locked_share = SelectSeq(@, Others)]
          g2 == IF vote_info.vote = "Yes"
                THEN [g1 EXCEPT !.polls[poll_id].yes_votes = @ - amount]
                ELSE [g1 EXCEPT !.polls[poll_id].no_votes = @ - amount]
      IN IF tally < amount THEN NgeErr(g, "Overflow")
         ELSE NgeOk([g2 EXCEPT !.voters = @ \ nge_poll_voter(g, poll_id, voter_id)])

\* Mutant: the quorum denominator is the current total_share.
nge_staked_amount_Current(g, a_poll) == g.state.total_share

\* The quorum denominator of end_poll when total_share is not 0.
nge_staked_amount(g, a_poll) ==
    IF a_poll.total_share_at_start_poll > g.state.total_share
    THEN a_poll.total_share_at_start_poll
    ELSE g.state.total_share

\* end_poll(poll_id): InProgress and current block >= end_height; quorum
\* fraction 0 when total_share = 0, else tallied / staked_amount; the decision
\* of the fungible engine; total_share_at_end_poll = current total_share.
nge_end_poll(g, h, poll_id) ==
    IF ~nge_poll_exists(g, poll_id) THEN NgeErr(g, "PollNotFound")
    ELSE
      LET a_poll == g.polls[poll_id]
          yes == a_poll.yes_votes
          tallied_weight == yes + a_poll.no_votes
      IN
      IF a_poll.status # "InProgress" THEN NgeErr(g, "PollNotInProgress")
      ELSE IF a_poll.end_height > h THEN NgeErr(g, "PollVotingPeriod")
      ELSE
        LET quorum_missed ==
                tallied_weight = 0
                \/ (IF g.state.total_share = 0
                    THEN decimal_lt(0, 1, g.config.quorum)
                    ELSE decimal_lt(tallied_weight, nge_staked_amount(g, a_poll),
                                    g.config.quorum))
            passed == ~quorum_missed /\ decimal_gt(yes, tallied_weight, g.config.threshold)
        IN [err |-> "",
            g |-> [g EXCEPT !.polls[poll_id].status = IF passed THEN "Passed" ELSE "Rejected",
                            !.polls[poll_id].total_share_at_end_poll =
                                Some(g.state.total_share)],
            info |-> IF quorum_missed THEN "Quorum not reached"
                     ELSE IF passed THEN "" ELSE "Threshold not reached"]

\* Mutant: a voter with a vote locked in an open poll may delegate.
nge_delegate_vote_NoVoteCheck(g, voter_id, delegator_id) ==
    LET g1 == nge_locked_vote_reduction(g, voter_id).g IN
    IF IsSome(g1.bank[voter_id].delegate_to) THEN NgeErr(g, "AlreadyDelegated")
    ELSE LET g2 == nge_bank_save(g1, voter_id,
                       [g1.bank[voter_id] EXCEPT !.delegate_to = Some(delegator_id)])
         IN NgeOk(nge_bank_save(g2, delegator_id,
                       [g2.bank[delegator_id] EXCEPT !.delegated_from = Append(@, voter_id)]))

\* delegate_vote(voter_id, delegator_id): purge the entries of terminated polls
\* from voter.locked_share; any left -> AlreadyVoted; delegate_to set ->
\* AlreadyDelegated; set delegate_to and append the voter to the delegate's
\* delegated_from.
nge_delegate_vote(g, voter_id, delegator_id) ==
    LET g1 == nge_locked_vote_reduction(g, voter_id).g IN
    IF g1.bank[voter_id].locked_share # <<>> THEN NgeErr(g, "AlreadyVoted")
    ELSE IF IsSome(g1.bank[voter_id].delegate_to) THEN NgeErr(g, "AlreadyDelegated")
    ELSE LET g2 == nge_bank_save(g1, voter_id,
                       [g1.bank[voter_id] EXCEPT !.delegate_to = Some(delegator_id)])
         IN NgeOk(nge_bank_save(g2, delegator_id,
                       [g2.bank[delegator_id] EXCEPT !.delegated_from = Append(@, voter_id)]))

\* Vec::swap_remove of the first occurrence of x: the last element takes its place.
swap_remove(s, x) ==
    IF \A i \in DOMAIN s : s[i] # x THEN s
    ELSE LET i == CHOOSE k \in DOMAIN s : s[k] = x /\ \A j \in 1..(k - 1) : s[j] # x
             n == Len(s)
         IN SubSeq([s EXCEPT ![i] = s[n]], 1, n - 1)

\* undelegate_vote(voter_id): NotYetDelegated without a delegation; clear
\* delegate_to and swap-remove the voter from the delegate's delegated_from.
nge_undelegate_vote(g, voter_id) ==
    IF ~IsSome(g.bank[voter_id].delegate_to) THEN NgeErr(g, "NotYetDelegated")
    ELSE LET delegator_id == Unwrap(g.bank[voter_id].delegate_to)
             g1 == nge_bank_save(g, voter_id, [g.bank[voter_id] EXCEPT !.delegate_to = None])
         IN NgeOk(nge_bank_save(g1, delegator_id,
                      [g1.bank[delegator_id] EXCEPT !.delegated_from = swap_remove(@, voter_id)]))

\* The payloads of Cw721HookMsg (msg.rs:52-89).
HookExit == [type |-> "Exit"]
HookDelegateVote(delegator) == [type |-> "DelegateVote", delegator |-> delegator]
HookUnDelegateVote == [type |-> "UnDelegateVote"]
HookCreatePoll == [type |-> "CreatePoll"]
HookCastVote(poll_id, vote) == [type |-> "CastVote", poll_id |-> poll_id, vote |-> vote]
HookCancelVote(poll_id) == [type |-> "CancelVote", poll_id |-> poll_id]
HookEndPoll(poll_id) == [type |-> "EndPoll", poll_id |-> poll_id]

\* receive(token_id, payload): the sender must be the configured membership
\* token; token_id is the voter identity of the inner call.
nge_receive_nft(g, h, sender, token_id, msg) ==
    IF sender # g.config.cw721_token THEN NgeErr(g, "Unauthorized")
    ELSE CASE msg.type = "Exit" -> nge_exit(g, token_id)
           [] msg.type = "DelegateVote" -> nge_delegate_vote(g, token_id, msg.delegator)
           [] msg.type = "UnDelegateVote" -> nge_undelegate_vote(g, token_id)
           [] msg.type = "CreatePoll" -> nge_create_poll(g, h, token_id)
           [] msg.type = "CastVote" -> nge_cast_vote(g, h, token_id, msg.poll_id, msg.vote)
           [] msg.type = "CancelVote" -> nge_cancel_vote(g, h, token_id, msg.poll_id)
           [] msg.type = "EndPoll" -> nge_end_poll(g, h, msg.poll_id)

\* ------------------------------------------------------------------ inputs
Payload(order, contract, msg) == [order |-> order, contract |-> contract, msg |-> msg]

StakeHook == [type |-> "StakeVotingTokens", execute_msgs |-> None]
GarbageHook == [type |-> "Garbage", execute_msgs |-> None]
CreatePollHook(execute_msgs) == [type |-> "CreatePoll", execute_msgs |-> execute_msgs]

PollIds == 0..MaxPolls

NoUpdate == [owner |-> None, cw20_token |-> None, quorum |-> None, threshold |-> None,
             voting_period |-> None, timelock_period |-> None,
             proposal_deposit |-> None, snapshot_period |-> None]

\* InstantiateMsg of the single-poll specification: the voting period is longer
\* than the snapshot period, so a poll starts outside its snapshot window.
InstantiateMsg == [cw20_token |-> CW20, quorum |-> Dec(1, 2), threshold |-> Dec(1, 2),
                   voting_period |-> 2, timelock_period |-> 1, proposal_deposit |-> 1,
                   snapshot_period |-> 1]

\* InstantiateMsg of the two-poll specifications.
InstantiateMsgTwo == [InstantiateMsg EXCEPT !.voting_period = 1]

\* -------------------------------------------------------------------- Init
InitOf(msg) ==
    /\ validate_quorum(msg.quorum)
    /\ validate_threshold(msg.threshold)
    /\ LET i == instantiate("u1", msg) IN
       /\ config = i.config
       /\ state = i.state
    /\ height = 1
    /\ polls = <<>>
    /\ poll_indexer = {}
    /\ bank = [u \in Users |-> TokenManagerDefault]
    /\ voters = {}
    /\ tmp_poll_id = 0
    /\ token_balance = [t \in Tokens |-> 0]
    /\ ext_log = <<>>
    /\ n_updates = 0
    /\ nft = cw721_instantiate("u1")
    /\ nge = nge_instantiate("u1", NgeInstantiateMsg)

Init == InitOf(InstantiateMsg)

\* ----------------------------------------------------------------- actions
AdvanceBlock(max_height) ==
    /\ height < max_height
    /\ height' = height + 1
    /\ UNCHANGED <<config, state, polls, poll_indexer, bank, voters, tmp_poll_id,
                   token_balance, ext_log, n_updates, nft, nge>>

\* Cw20 Send: the token moves `amount` to the engine, then calls Receive; a
\* failing Receive reverts the transfer with it.
Receive(token, user, amount, hook, max_balance) ==
    /\ token_balance[token] + amount <= max_balance
    /\ Commit(receive_cw20([World EXCEPT !.token_balance[token] = @ + amount], height,
                           token, [sender |-> user, amount |-> amount, msg |-> hook]))
    /\ UNCHANGED <<height, n_updates, nft, nge>>

CastVote(sender, poll_id, vote, amount) ==
    /\ Commit(cast_vote(World, height, sender, poll_id, vote, amount))
    /\ UNCHANGED <<height, n_updates, nft, nge>>

WithdrawVotingTokens(sender, amount, oc) ==
    /\ Commit(withdraw_voting_tokens(World, sender, amount, oc))
    /\ UNCHANGED <<height, n_updates, nft, nge>>

EndPoll(poll_id) ==
    /\ Commit(end_poll(World, height, poll_id))
    /\ UNCHANGED <<height, n_updates, nft, nge>>

ExecutePoll(poll_id) ==
    /\ Commit(execute_poll(World, height, poll_id))
    /\ UNCHANGED <<height, n_updates, nft, nge>>

\* ExecuteMsg::ExecutePollMsgs sent by an external account.
ExecutePollMessages(sender, poll_id) ==
    /\ Commit(execute_poll_messages(World, sender, poll_id))
    /\ UNCHANGED <<height, n_updates, nft, nge>>

SnapshotPoll(poll_id, oc) ==
    /\ Commit(snapshot_poll(World, height, poll_id, oc))
    /\ UNCHANGED <<height, n_updates, nft, nge>>

UpdateConfig(sender, u) ==
    /\ n_updates < MaxConfigUpdates
    /\ Commit(update_config(World, sender, u))
    /\ n_updates' = IF update_config(World, sender, u).err = "" THEN n_updates + 1
                    ELSE n_updates
    /\ UNCHANGED <<height, nft, nge>>

\* A plain cw20 Transfer to the engine's address: the token credits the engine
\* without calling Receive, and the engine sees it in its next balance query.
Donate(amount, max_balance) ==
    /\ token_balance[config.cw20_token] + amount <= max_balance
    /\ token_balance' = [token_balance EXCEPT ![config.cw20_token] = @ + amount]
    /\ UNCHANGED <<height, config, state, polls, poll_indexer, bank, voters,
                   tmp_poll_id, ext_log, n_updates, nft, nge>>

\* The engine's next-state relation over the inputs I, a record of finite input
\* sets and of the caps (poll count, block height, token balance) under which
\* the environment keeps sending.
NextOf(I) ==
    \/ AdvanceBlock(I.max_height)
    \/ \E t \in Tokens, u \in I.stakers, a \in I.stake_amounts :
          Receive(t, u, a, StakeHook, I.max_balance)
    \/ \E t \in Tokens, u \in I.proposers, a \in I.deposits, e \in I.execute_msgs :
          state.poll_count < I.max_polls
          /\ Receive(t, u, a, CreatePollHook(e), I.max_balance)
    \/ \E t \in Tokens, u \in I.proposers : Receive(t, u, 1, GarbageHook, I.max_balance)
    \/ \E s \in I.voters, p \in PollIds, v \in I.votes, a \in I.vote_amounts :
          CastVote(s, p, v, a)
    \/ \E s \in Users, a \in I.withdraw_amounts, oc \in BOOLEAN :
          WithdrawVotingTokens(s, a, oc)
    \/ \E p \in PollIds : EndPoll(p)
    \/ \E p \in PollIds : ExecutePoll(p)
    \/ \E s \in Users, p \in PollIds : ExecutePollMessages(s, p)
    \/ \E p \in PollIds, oc \in BOOLEAN : SnapshotPoll(p, oc)
    \/ \E s \in Users, u \in I.updates : UpdateConfig(s, u)

PayloadOkThenFail ==
    Some(<<Payload(1, EXT, ExtCall("ok", "a")), Payload(2, EXT, ExtCall("fail", ""))>>)

PayloadUnsorted ==
    Some(<<Payload(2, EXT, ExtCall("ok", "b")), Payload(1, EXT, ExtCall("ok", "a"))>>)

PayloadExecuteOther == Some(<<Payload(1, GOV, ExecutePollMsgs(2))>>)

PayloadExt == Some(<<Payload(1, EXT, ExtCall("ok", "a"))>>)

\* One poll without payload, two stakers: the poll's whole life with staking
\* and withdrawing around it, deposits below and above proposal_deposit (which
\* the owner may lower to zero).
Inputs ==
    [max_polls |-> MaxPolls - 1, max_height |-> MaxHeight, max_balance |-> MaxBalance,
     stakers |-> Users, stake_amounts |-> 0..2,
     proposers |-> {"u1"}, deposits |-> 0..1,
     execute_msgs |-> {None},
     voters |-> Users, votes |-> {"Yes", "No"}, vote_amounts |-> 1..2,
     withdraw_amounts |-> {None, Some(1)},
     updates |-> {[NoUpdate EXCEPT !.timelock_period = Some(0),
                                   !.proposal_deposit = Some(0)]}]

\* Two polls, one of which may carry a payload that calls the engine itself.
InputsTwo ==
    [max_polls |-> MaxPolls, max_height |-> MaxHeight - 1, max_balance |-> MaxBalance - 1,
     stakers |-> {"u1"}, stake_amounts |-> {1},
     proposers |-> {"u1"}, deposits |-> {1},
     execute_msgs |-> {None, PayloadExecuteOther},
     voters |-> {"u1"}, votes |-> {"Yes"}, vote_amounts |-> {1},
     withdraw_amounts |-> {None},
     updates |-> {[NoUpdate EXCEPT !.timelock_period = Some(0)]}]

\* One poll with payloads that succeed, fail, or are stored out of order.
InputsExec ==
    [max_polls |-> MaxPolls - 1, max_height |-> MaxHeight, max_balance |-> MaxBalance - 1,
     stakers |-> {"u1"}, stake_amounts |-> {1},
     proposers |-> {"u1"}, deposits |-> {1},
     execute_msgs |-> {None, PayloadOkThenFail, PayloadUnsorted},
     voters |-> {"u1"}, votes |-> {"Yes", "No"}, vote_amounts |-> {1},
     withdraw_amounts |-> {None},
     updates |-> {[NoUpdate EXCEPT !.timelock_period = Some(0)]}]

\* Updates of the configuration: a quorum above 1, a new owner, and one that
\* sets every field.
UpdateQuorumAboveOne == [NoUpdate EXCEPT !.quorum = Some(Dec(3, 2))]

UpdateOwner == [NoUpdate EXCEPT !.owner = Some("u2")]

UpdateAll == [owner |-> Some("u2"), cw20_token |-> Some(CW20B), quorum |-> Some(Dec(1, 4)),
              threshold |-> Some(Dec(2, 1)), voting_period |-> Some(1),
              timelock_period |-> Some(0), proposal_deposit |-> Some(0),
              snapshot_period |-> Some(2)]

\* One poll, one staker, and an owner who changes the configuration.
InputsConfig ==
    [max_polls |-> MaxPolls - 1, max_height |-> MaxHeight - 1,
     max_balance |-> MaxBalance - 2,
     stakers |-> {"u1"}, stake_amounts |-> {1},
     proposers |-> {"u1"}, deposits |-> {1},
     execute_msgs |-> {None},
     voters |-> {"u1"}, votes |-> {"Yes"}, vote_amounts |-> {1},
     withdraw_amounts |-> {None},
     updates |-> {UpdateQuorumAboveOne, UpdateOwner, UpdateAll}]

\* Two polls without payloads, one staker voting different amounts on both.
InputsLock ==
    [max_polls |-> MaxPolls, max_height |-> MaxHeight - 1, max_balance |-> MaxBalance,
     stakers |-> {"u1"}, stake_amounts |-> {2},
     proposers |-> {"u1"}, deposits |-> {1},
     execute_msgs |-> {None},
     voters |-> {"u1"}, votes |-> {"Yes"}, vote_amounts |-> 1..2,
     withdraw_amounts |-> {None, Some(1)},
     updates |-> {[NoUpdate EXCEPT !.owner = Some("u2")]}]

Next == NextOf(Inputs)

Spec == Init /\ [][Next]_vars

InitTwo == InitOf(InstantiateMsgTwo)

NextTwo == NextOf(InputsTwo)

SpecTwo == InitTwo /\ [][NextTwo]_vars

NextExec == NextOf(InputsExec)

SpecExec == Init /\ [][NextExec]_vars

\* Two polls: one may carry a call of the external contract, the other a call
\* of the engine's own ExecutePollMsgs for poll 2.
InputsOnce ==
    [max_polls |-> MaxPolls, max_height |-> MaxHeight - 1, max_balance |-> MaxBalance - 1,
     stakers |-> {"u1"}, stake_amounts |-> {1},
     proposers |-> {"u1"}, deposits |-> {1},
     execute_msgs |-> {PayloadExt, PayloadExecuteOther},
     voters |-> {"u1"}, votes |-> {"Yes"}, vote_amounts |-> {1},
     withdraw_amounts |-> {None},
     updates |-> {[NoUpdate EXCEPT !.timelock_period = Some(0)]}]

NextOnce == NextOf(InputsOnce)

SpecOnce == InitTwo /\ [][NextOnce]_vars

\* One poll, two stakers, votes of 1 or 2 and tokens sent to the engine
\* directly, so that the pool differs from the share total during the vote.
InputsBacked ==
    [max_polls |-> MaxPolls - 1, max_height |-> MaxHeight - 1, max_balance |-> MaxBalance,
     stakers |-> Users, stake_amounts |-> 1..2,
     proposers |-> {"u1"}, deposits |-> {0},
     execute_msgs |-> {None},
     voters |-> Users, votes |-> {"Yes"}, vote_amounts |-> 1..2,
     withdraw_amounts |-> {None, Some(1), Some(2)},
     updates |-> {[NoUpdate EXCEPT !.proposal_deposit = Some(0)]}]

NextBacked == NextOf(InputsBacked) \/ Donate(1, InputsBacked.max_balance)

SpecBacked == Init /\ [][NextBacked]_vars

\* The membership token alone: the engine's storage stays as instantiated.
\* A failed call changes nothing; a forward is delivered to gov_contract, whose
\* storage is not the token's.
NftMint(sender, token_id, token_owner) ==
    /\ nft' = cw721_mint(nft, sender, token_id, token_owner).n
    /\ UNCHANGED <<fge_vars, nge>>

NftTransferNft(sender, recipient, token_id) ==
    /\ nft' = cw721_transfer_nft(nft, sender, recipient, token_id).n
    /\ UNCHANGED <<fge_vars, nge>>

NftExecuteDao(sender, token_id, msg) ==
    /\ nft' = cw721_execute_dao(nft, sender, token_id, msg).n
    /\ UNCHANGED <<fge_vars, nge>>

NextNft ==
    \/ \E s \in Users, t \in TokenIds, o \in Addresses : NftMint(s, t, o)
    \/ \E s \in Users, t \in TokenIds, o \in Addresses : NftTransferNft(s, o, t)
    \/ \E s \in Addresses, t \in TokenIds : NftExecuteDao(s, t, "Exit")

SpecNft == Init /\ [][NextNft]_vars

\* ---- the non-fungible governance engine: one action per message
\* A successful call of the engine: the storage becomes that of the result.
NgeStep(r) ==
    /\ r.err = ""
    /\ nge' = r.g
    /\ UNCHANGED <<fge_vars, nft>>

NgeMint(sender, recipient, amount) ==
    /\ nge.bank[recipient].balance + amount <= MaxNgeBalance
    /\ NgeStep(nge_mint(nge, sender, recipient, amount))

NgeTransferFrom(sender, owner_id, recipient, amount) ==
    /\ owner_id # recipient
    /\ nge.bank[recipient].balance + amount <= MaxNgeBalance
    /\ NgeStep(nge_transfer_from(nge, sender, owner_id, recipient, amount))

NgeReceiveNft(sender, token_id, msg) ==
    NgeStep(nge_receive_nft(nge, height, sender, token_id, msg))

NgeCreatePoll(sender, token_id, max_polls) ==
    /\ nge.state.poll_count < max_polls
    /\ NgeReceiveNft(sender, token_id, HookCreatePoll)

NgeCastVote(sender, token_id, poll_id, vote, max_locked) ==
    /\ \A m \in {token_id} \cup {nge.bank[token_id].delegated_from[i] :
                                    i \in DOMAIN nge.bank[token_id].delegated_from} :
           Len(nge.bank[m].locked_share) < max_locked
    /\ nge_poll_exists(nge, poll_id) =>
           nge.polls[poll_id].yes_votes + nge.polls[poll_id].no_votes <= MaxNgeTally
    /\ NgeReceiveNft(sender, token_id, HookCastVote(poll_id, vote))

NgePollIds == 0..MaxNgePolls

\* The messages the environment sends to the engine, as one record: members
\* receive, move and burn balances, voters create, vote on, cancel and end polls,
\* delegators delegate to delegates.
InputsNge ==
    [senders |-> {NFT, "u1", "u2"}, members |-> {"A", "B"}, voters |-> {"A", "B"},
     delegators |-> {}, delegates |-> {},
     amounts |-> {1, 3}, votes |-> {"Yes", "No"}, max_locked |-> MaxLocked,
     max_height |-> MaxNgeHeight]

\* Two members, each of them a possible delegate of each.
InputsDelegate ==
    [senders |-> {NFT, "u1", "u2"}, members |-> {"A", "B"}, voters |-> {"A", "B"},
     delegators |-> {"A", "B"}, delegates |-> {"A", "B"},
     amounts |-> {1, 3}, votes |-> {"Yes"}, max_locked |-> 1,
     max_height |-> MaxNgeHeight]

\* Three members: A and C delegate to B, who votes.
InputsCascade ==
    [senders |-> {NFT, "u1"}, members |-> {"A", "B", "C"}, voters |-> {"B"},
     delegators |-> {"A", "C"}, delegates |-> {"B"},
     amounts |-> {2}, votes |-> {"Yes"}, max_locked |-> 1,
     max_height |-> MaxNgeHeight - 1]

\* Minting, transfers, polls, votes, cancellations and exits.
NextNgeOf(inp) ==
    \/ AdvanceBlock(inp.max_height)
    \/ \E s \in inp.senders, m \in inp.members, a \in inp.amounts : NgeMint(s, m, a)
    \/ \E s \in inp.senders, m \in inp.members, r \in inp.members, a \in inp.amounts :
           NgeTransferFrom(s, m, r, a)
    \/ \E s \in inp.senders, m \in inp.voters : NgeCreatePoll(s, m, MaxNgePolls)
    \/ \E s \in inp.senders, m \in inp.voters, p \in NgePollIds, v \in inp.votes :
           NgeCastVote(s, m, p, v, inp.max_locked)
    \/ \E s \in inp.senders, m \in inp.voters, p \in NgePollIds :
           NgeReceiveNft(s, m, HookCancelVote(p))
    \/ \E s \in inp.senders, m \in inp.voters, p \in NgePollIds :
           NgeReceiveNft(s, m, HookEndPoll(p))
    \/ \E s \in inp.senders, m \in inp.members : NgeReceiveNft(s, m, HookExit)

\* Delegations and their withdrawal.
NextDelegationOf(inp) ==
    \/ \E s \in inp.senders, m \in inp.delegators, d \in inp.delegates :
           NgeReceiveNft(s, m, HookDelegateVote(d))
    \/ \E s \in inp.senders, m \in inp.delegators : NgeReceiveNft(s, m, HookUnDelegateVote)

NextNge == NextNgeOf(InputsNge)

SpecNge == Init /\ [][NextNge]_vars

NextDelegate == NextNgeOf(InputsDelegate) \/ NextDelegationOf(InputsDelegate)

SpecDelegate == Init /\ [][NextDelegate]_vars

NextCascade == NextNgeOf(InputsCascade) \/ NextDelegationOf(InputsCascade)

SpecCascade == Init /\ [][NextCascade]_vars

\* A delegates to B, who votes, cancels and votes again.
InputsRecast ==
    [senders |-> {NFT, "u1"}, members |-> {"A", "B"}, voters |-> {"B"},
     delegators |-> {"A"}, delegates |-> {"B"},
     amounts |-> {1, 3}, votes |-> {"Yes", "No"}, max_locked |-> MaxLocked,
     max_height |-> MaxNgeHeight]

NextRecast == NextNgeOf(InputsRecast) \/ NextDelegationOf(InputsRecast)

SpecRecast == Init /\ [][NextRecast]_vars

NextConfig == NextOf(InputsConfig)

SpecConfig == Init /\ [][NextConfig]_vars

NextLock == NextOf(InputsLock)

SpecLock == InitTwo /\ [][NextLock]_vars

\* The withdraw-locking scenario: one staker with 100 tokens who votes 60 on
\* the only poll and withdraws 40, 50 or everything that is free.
InputsE3 ==
    [max_polls |-> MaxPolls - 1, max_height |-> MaxHeight - 1, max_balance |-> 101,
     stakers |-> {"u1"}, stake_amounts |-> {100},
     proposers |-> {"u1"}, deposits |-> {1},
     execute_msgs |-> {None},
     voters |-> {"u1"}, votes |-> {"Yes"}, vote_amounts |-> {60},
     withdraw_amounts |-> {None, Some(40), Some(50)},
     updates |-> {[NoUpdate EXCEPT !.timelock_period = Some(0)]}]

NextE3 == NextOf(InputsE3)

SpecE3 == Init /\ [][NextE3]_vars

\* ================================================================= claims

StatusEdges == {<<"InProgress", "Passed">>, <<"InProgress", "Rejected">>,
                <<"Passed", "Executed">>}

\* C1: every change of a poll's status is InProgress->Passed, InProgress->Rejected
\* or Passed->Executed; a Rejected or Executed poll never changes status again.
C1_StatusGraph ==
    [][\A p \in DOMAIN polls :
          polls'[p].status # polls[p].status
              => <<polls[p].status, polls'[p].status>> \in StatusEdges]_vars

\* The guards of the two execution entry points, on the current state.
C2_Guards ==
    /\ \A s \in Users, p \in PollIds :
          execute_poll_messages(World, s, p).err = "Unauthorized"
    /\ \A p \in DOMAIN polls :
          /\ polls[p].status # "Passed" => execute_poll(World, height, p).err = "PollNotPassed"
          /\ (polls[p].status = "Passed"
                 /\ polls[p].end_height + config.timelock_period > height)
                => execute_poll(World, height, p).err = "TimelockNotExpired"

\* C2: a poll's status becomes Executed only at a block height
\* >= poll.end_height + config.timelock_period, and an ExecutePollMsgs call by
\* an external account fails with Unauthorized.
C2_TimelockNotBypassed ==
    [][/\ \A p \in DOMAIN polls :
             (polls[p].status # "Executed" /\ polls'[p].status = "Executed")
                 => height >= polls[p].end_height + config.timelock_period
       /\ C2_Guards]_vars

\* Sum of the function f over the finite set S.
RECURSIVE Sum(_, _)
Sum(f, S) ==
    IF S = {} THEN 0
    ELSE LET x == CHOOSE y \in S : TRUE IN f[x] + Sum(f, S \ {x})


InProgressPolls == {p \in DOMAIN polls : polls[p].status = "InProgress"}

\* C4: state.total_deposit equals the sum of deposit_amount over all polls whose
\* status is InProgress.
C4_DepositAccounting ==
    state.total_deposit = Sum([p \in DOMAIN polls |-> polls[p].deposit_amount],
                              InProgressPolls)


SumShares == Sum([u \in Users |-> bank[u].share], Users)

\* A step that is a successful stake by u, resp. a successful withdraw by u.
StakeStep(u) == \E t \in Tokens, a \in 0..MaxBalance : Receive(t, u, a, StakeHook, MaxBalance)
WithdrawStep(u) ==
    \E a \in {None} \cup {Some(v) : v \in 0..MaxBalance}, oc \in BOOLEAN :
        WithdrawVotingTokens(u, a, oc)

\* C3: state.total_share equals the sum of share over all bank entries after
\* every step; a step that changes a share or total_share is a stake (which adds
\* the same amount to one account and to total_share) or a withdraw (which
\* subtracts the same amount from both), and changes no other account.
C3_ShareConservation ==
    [][/\ state'.total_share = Sum([u \in Users |-> bank'[u].share], Users)
       /\ (state'.total_share # state.total_share
             \/ \E u \in Users : bank'[u].share # bank[u].share)
            => \E u \in Users :
                  /\ \A o \in Users \ {u} : bank'[o].share = bank[o].share
                  /\ bank'[u].share - bank[u].share
                        = state'.total_share - state.total_share
                  /\ \/ bank'[u].share > bank[u].share /\ StakeStep(u)
                     \/ bank'[u].share < bank[u].share /\ WithdrawStep(u)]_vars

\* Both accounts hold shares that are worth more than one token each (a
\* forfeited deposit), and one of them has withdrawn part of its stake.
C3_Witness ==
    /\ bank["u1"].share > 0
    /\ bank["u2"].share > 0
    /\ state.total_share = SumShares
    /\ token_balance[CW20] - state.total_deposit > state.total_share
    /\ state.total_share < MaxBalance - 1


\* ------------------------------------------------------------------ C5
Max(a, b) == IF a > b THEN a ELSE b

SetMax(S) == IF S = {} THEN 0 ELSE CHOOSE m \in S : \A x \in S : x <= m

\* Tokens the engine holds for the stakers, and what the claim calls
\* locked_balance, locked_share and withdraw_share, from the voter records.
PoolBalance == token_balance[config.cw20_token] - state.total_deposit

LockedBalance(u) ==
    SetMax({r.balance : r \in {v \in voters : v.voter = u /\ v.poll_id \in InProgressPolls}})

LockedShare(u) == (LockedBalance(u) * state.total_share) \div PoolBalance

WithdrawShare(u, amount) ==
    IF IsSome(amount)
    THEN Max((Unwrap(amount) * state.total_share) \div PoolBalance, 1)
    ELSE bank[u].share - LockedShare(u)

WithdrawAmounts == {None} \cup {Some(v) : v \in 0..MaxBalance}

\* C5: for an account with a bank entry and a non-empty pool, withdraw succeeds
\* only if locked_share + withdraw_share <= share, where locked_share comes from
\* the maximum vote balance over the polls still InProgress, and then debits
\* withdraw_share from the account and from total_share; it fails with
\* InvalidWithdrawAmount, changing nothing, when the sum exceeds the share; and
\* a withdraw of an explicit amount within that limit succeeds, whatever the
\* caller voted on polls that are over.
C5_WithdrawRespectsLocks ==
    \A u \in Users, a \in WithdrawAmounts, oc \in BOOLEAN :
        (bank[u].exists /\ PoolBalance > 0) =>
            LET r == withdraw_voting_tokens(World, u, a, oc)
                ls == LockedShare(u)
                ws == WithdrawShare(u, a)
            IN /\ r.err = "" => /\ ls + ws <= bank[u].share
                                /\ r.w.bank[u].share = bank[u].share - ws
                                /\ r.w.state.total_share = state.total_share - ws
               /\ ls + ws > bank[u].share =>
                      /\ r.err = "InvalidWithdrawAmount"
                      /\ Transaction(r) = [ok |-> FALSE, w |-> World]
               /\ (IsSome(a) /\ ls + ws <= bank[u].share) => r.err = ""

\* u1 has voted 1 on each of two polls that are InProgress: the maximum (1)
\* lets a withdraw of 1 of its 2 shares through, the sum (2) would not.
C5_Witness ==
    /\ Cardinality({r \in voters : r.voter = "u1" /\ r.poll_id \in InProgressPolls
                                     /\ r.balance = 1}) = 2
    /\ bank["u1"].share = 2
    /\ PoolBalance = 2
    /\ withdraw_voting_tokens(World, "u1", Some(1), TRUE).err = ""
    /\ withdraw_voting_tokens(World, "u1", Some(2), TRUE).err = "InvalidWithdrawAmount"

\* ------------------------------------------------------------------ C6
VoterRecords(p, s) == {r \in voters : r.poll_id = p /\ r.voter = s}

LockedEntries(p, s) ==
    {i \in DOMAIN bank[s].locked_balance : bank[s].locked_balance[i][1] = p}

Votes == {"Yes", "No"}

Tallied(p) == polls[p].yes_votes + polls[p].no_votes

StakedWeight(p) ==
    IF state.total_share = 0 THEN 0
    ELSE IF IsSome(polls[p].staked_amount) THEN Unwrap(polls[p].staked_amount)
    ELSE PoolBalance

\* tallied / staked_weight >= config.quorum; the fraction is 0 when total_share = 0.
QuorumReached(p) ==
    /\ Tallied(p) > 0
    /\ IF state.total_share = 0 THEN config.quorum.num = 0
       ELSE Tallied(p) * config.quorum.den >= config.quorum.num * StakedWeight(p)

\* yes_votes / tallied > config.threshold
ThresholdReached(p) ==
    polls[p].yes_votes * config.threshold.den > config.threshold.num * Tallied(p)

ExpectedStatus(p) ==
    IF QuorumReached(p) /\ ThresholdReached(p) THEN "Passed" ELSE "Rejected"

ExpectedReason(p) ==
    IF ~QuorumReached(p) THEN "Quorum not reached"
    ELSE IF ~ThresholdReached(p) THEN "Threshold not reached"
    ELSE ""

\* The decision of end_poll on poll p agrees with the claim's.
EndPollDecides(p) ==
    LET r == end_poll(World, height, p) IN
    /\ r.err = ""
    /\ r.w.polls[p].status = ExpectedStatus(p)
    /\ r.info = ExpectedReason(p)
    /\ r.w.polls[p].total_balance_at_end_poll = Some(StakedWeight(p))

\* The quorum fraction of the claim is defined: a poll with votes has a
\* denominator, except when total_share = 0 makes the fraction 0.
FractionDefined(p) == Tallied(p) = 0 \/ StakedWeight(p) > 0 \/ state.total_share = 0

\* C7: for every InProgress poll at a block >= end_height, end_poll makes the
\* poll Passed exactly when tallied > 0, tallied / staked_weight >= quorum and
\* yes_votes / tallied > threshold, and Rejected otherwise, for the reason the
\* claim names, and records staked_weight in total_balance_at_end_poll.
C7_EndPollDecision ==
    \A p \in InProgressPolls :
        (height >= polls[p].end_height /\ FractionDefined(p)) => EndPollDecides(p)

\* The same, leaving out the states where end_poll divides by a zero snapshot.
C7_DecisionWithDenominator ==
    \A p \in InProgressPolls :
        (height >= polls[p].end_height /\ FractionDefined(p)
           /\ ~(state.total_share # 0 /\ StakedWeight(p) = 0)) => EndPollDecides(p)

\* ------------------------------------------------------------------ C8
\* What end_poll does with the deposit of poll p, on the current state.
RefundPolicy(p) ==
    LET r == end_poll(World, height, p)
        d == Transaction(r)
        deposit == polls[p].deposit_amount
        refund == <<TransferMsg(config.cw20_token, polls[p].creator, deposit)>>
        pool_after == d.w.token_balance[config.cw20_token] - d.w.state.total_deposit
    IN /\ polls[p].status # "InProgress" => (r.err = "PollNotInProgress" /\ r.msgs = <<>>)
       /\ r.err = "" =>
            /\ (r.info # "Quorum not reached") = QuorumReached(p)
            /\ r.msgs = (IF QuorumReached(p) /\ deposit > 0 THEN refund ELSE <<>>)
            /\ r.w.state.total_deposit = state.total_deposit - deposit
            /\ r.w.state.total_share = state.total_share
            /\ d.ok
            /\ d.w.state.total_share = state.total_share
            /\ pool_after = (IF QuorumReached(p) THEN PoolBalance ELSE PoolBalance + deposit)

\* C8: end_poll emits a transfer of exactly deposit_amount to the creator iff
\* the quorum was reached and deposit_amount > 0; on 'Quorum not reached' it
\* emits none, still subtracts the deposit from total_deposit, and the pool
\* token_balance - total_deposit grows by the deposit with total_share
\* unchanged; a poll that has left InProgress never returns to it and end_poll
\* on it emits nothing, so a deposit is refunded at most once.
C8_RefundPolicy ==
    /\ [](\A p \in DOMAIN polls : RefundPolicy(p))
    /\ [][\A p \in DOMAIN polls :
              polls[p].status # "InProgress" => polls'[p].status # "InProgress"]_vars

\* Poll 1 was rejected without a vote: its deposit of 1 was not returned and has
\* become part of the stakers' pool.
C8_Witness ==
    /\ polls # <<>>
    /\ polls[1].status = "Rejected"
    /\ Tallied(1) = 0
    /\ polls[1].deposit_amount = 1
    /\ state.total_deposit = 0
    /\ state.total_share > 0
    /\ PoolBalance = state.total_share + 1

\* ------------------------------------------------------------------ C9
\* The outcome of snapshot_poll on poll p at the current height, up to end_height.
SnapshotOutcome(p, oc) ==
    LET r == snapshot_poll(World, height, p, oc)
        to_end == polls[p].end_height - height
    IN /\ polls[p].status # "InProgress" => r.err = "PollNotInProgress"
       /\ (polls[p].status = "InProgress" /\ to_end > config.snapshot_period)
             => r.err = "SnapshotHeight"
       /\ (polls[p].status = "InProgress" /\ to_end >= 0
              /\ to_end <= config.snapshot_period /\ IsSome(polls[p].staked_amount))
             => r.err = "SnapshotAlreadyOccurred"
       /\ r.err = "" => /\ polls[p].status = "InProgress"
                        /\ to_end >= 0 /\ to_end <= config.snapshot_period
                        /\ ~IsSome(polls[p].staked_amount)
                        /\ r.w.polls[p].staked_amount = Some(PoolBalance)

\* After end_height the poll is outside the window: SnapshotHeight.
SnapshotAfterEnd(p, oc) ==
    (polls[p].status = "InProgress" /\ height > polls[p].end_height)
        => snapshot_poll(World, height, p, oc).err = "SnapshotHeight"

\* How a step may change the snapshot of poll p: never once it is present, and
\* otherwise only by a snapshot_poll or a vote inside the window of an
\* InProgress poll, to the pool's balance at that moment.
SnapshotStepOk(p) ==
    LET to_end == polls[p].end_height - height IN
    /\ IsSome(polls[p].staked_amount) => polls'[p].staked_amount = polls[p].staked_amount
    /\ (~IsSome(polls[p].staked_amount) /\ IsSome(polls'[p].staked_amount)) =>
          /\ polls[p].status = "InProgress"
          /\ polls'[p].staked_amount = Some(PoolBalance)
          /\ \/ to_end >= 0 /\ to_end <= config.snapshot_period
                /\ \E oc \in BOOLEAN : SnapshotPoll(p, oc)
             \/ to_end >= 0 /\ to_end < config.snapshot_period
                /\ \E s \in Users, v \in Votes, a \in 0..MaxBalance : CastVote(s, p, v, a)

\* First writer wins, for heights up to end_height.
C9_FirstWriterWins ==
    /\ [](\A p \in DOMAIN polls, oc \in BOOLEAN : SnapshotOutcome(p, oc))
    /\ [][\A p \in DOMAIN polls : SnapshotStepOk(p)]_vars

\* C9: staked_amount is set at most once, only while the poll is InProgress and
\* inside the snapshot window, to token_balance - total_deposit at that moment,
\* and never changes afterwards; snapshot_poll fails with SnapshotAlreadyOccurred
\* once it is present, with PollNotInProgress on a poll that is not InProgress,
\* and with SnapshotHeight outside the window, at every height, those after
\* end_height included.
C9_SnapshotOnce ==
    /\ [](\A p \in DOMAIN polls, oc \in BOOLEAN :
             SnapshotOutcome(p, oc) /\ SnapshotAfterEnd(p, oc))
    /\ [][\A p \in DOMAIN polls : SnapshotStepOk(p)]_vars

\* ------------------------------------------------------------------ C10
\* The payloads of poll p in ascending `order`, by a sorting permutation.
PayloadsInOrder(p) ==
    IF ~IsSome(polls[p].execute_data) THEN <<>>
    ELSE LET e == Unwrap(polls[p].execute_data)
             n == Len(e)
             f == CHOOSE g \in [1..n -> 1..n] :
                     /\ \A i, j \in 1..n : i # j => g[i] # g[j]
                     /\ \A i, j \in 1..n : i < j => e[g[i]].order <= e[g[j]].order
         IN [i \in 1..n |-> e[f[i]]]

\* Every payload of poll p is a call the external contract accepts.
AllPayloadsSucceed(p) ==
    \A i \in DOMAIN PayloadsInOrder(p) :
        PayloadsInOrder(p)[i].contract = EXT /\ PayloadsInOrder(p)[i].msg.type = "ok"

PayloadEffects(p) == [i \in DOMAIN PayloadsInOrder(p) |-> PayloadsInOrder(p)[i].msg.data]

Executable(p) ==
    polls[p].status = "Passed" /\ height >= polls[p].end_height + config.timelock_period

\* execute_poll on an executable poll, and the transaction it starts.
AtomicExecution(p) ==
    LET r == execute_poll(World, height, p)
        d == Transaction(r)
    IN /\ r.err = ""
       /\ Len(r.msgs) = 1
       /\ r.msgs[1].reply_on = "Error"
       /\ r.msgs[1].id = 1
       /\ r.msgs[1].contract = GOV
       /\ r.msgs[1].msg = ExecutePollMsgs(p)
       /\ r.w.polls = polls
       /\ r.w.poll_indexer = poll_indexer
       /\ AllPayloadsSucceed(p) =>
             /\ d.ok
             /\ d.w.polls[p].status = "Executed"
             /\ d.w.ext_log = ext_log \o PayloadEffects(p)
       /\ ~AllPayloadsSucceed(p) => (~d.ok /\ d.w = World)

\* C10: execute_poll on a Passed poll whose timelock has expired emits exactly
\* one reply-on-error submessage with id 1 that calls ExecutePollMsgs on the
\* engine and leaves the poll's status as it is; when every payload succeeds
\* the poll is Executed and all payloads took effect, in order; when one fails
\* nothing of the batch persists and the poll is still Passed: in every step, a
\* poll becomes Executed together with all its payload effects, and payload
\* effects appear only that way.
C10_AtomicExecution ==
    /\ [](\A p \in DOMAIN polls : Executable(p) => AtomicExecution(p))
    /\ [][/\ \A p \in DOMAIN polls :
                (polls[p].status = "Passed" /\ polls'[p].status # "Passed") =>
                    /\ polls'[p].status = "Executed"
                    /\ AllPayloadsSucceed(p)
                    /\ ext_log' = ext_log \o PayloadEffects(p)
          /\ ext_log' # ext_log =>
                \E p \in DOMAIN polls :
                    polls[p].status = "Passed" /\ polls'[p].status = "Executed"]_vars

\* Poll 1 was stored with its payloads out of order and has been executed: both
\* took effect, in ascending order.
C10_Witness ==
    /\ polls # <<>>
    /\ polls[1].execute_data = PayloadUnsorted
    /\ polls[1].status = "Executed"
    /\ ext_log = <<"a", "b">>

\* Poll 1 carries a payload that fails, has passed and its timelock has expired.
C10_FailingBatch ==
    /\ polls # <<>>
    /\ polls[1].execute_data = PayloadOkThenFail
    /\ Executable(1)

\* ------------------------------------------------------------------ C11
\* C11: when a payload of an executable poll fails, the execute_poll
\* transaction still succeeds and leaves the poll in a terminal rejected
\* status, so that a later execute_poll on it fails.
C11_FailureRecovery ==
    \A p \in DOMAIN polls :
        (Executable(p) /\ ~AllPayloadsSucceed(p)) =>
            LET d == Transaction(execute_poll(World, height, p)) IN
            /\ d.ok
            /\ d.w.polls[p].status = "Rejected"
            /\ execute_poll(d.w, height, p).err = "PollNotPassed"

\* ------------------------------------------------------------------ C12
\* The guards of end_poll on poll p, on the current state.
EndPollGuards(p) ==
    LET r == end_poll(World, height, p) IN
    /\ polls[p].status # "InProgress" =>
          (r.err = "PollNotInProgress" /\ Transaction(r) = [ok |-> FALSE, w |-> World])
    /\ (polls[p].status = "InProgress" /\ polls[p].end_height > height) =>
          (r.err = "PollVotingPeriod" /\ Transaction(r) = [ok |-> FALSE, w |-> World])

\* C12: a poll leaves InProgress only at a block height >= end_height and only
\* by an end_poll on it; end_poll before end_height fails with PollVotingPeriod
\* and on a poll that is not InProgress with PollNotInProgress, changing
\* nothing.
C12_EndOnlyAfterVotingPeriod ==
    /\ [](\A p \in DOMAIN polls : EndPollGuards(p))
    /\ [][\A p \in DOMAIN polls :
              (polls[p].status = "InProgress" /\ polls'[p].status # "InProgress") =>
                  /\ height >= polls[p].end_height
                  /\ EndPoll(p)]_vars

\* ------------------------------------------------------------------ C13
\* C13: in every reachable state 0 <= quorum <= 1 and 0 <= threshold <= 1, and
\* an owner's update_config with a quorum or threshold above 1 is rejected.
C13_ConfigBounds ==
    /\ config.quorum.num >= 0 /\ ~decimal_gt_one(config.quorum)
    /\ config.threshold.num >= 0 /\ ~decimal_gt_one(config.threshold)
    /\ \A u \in {UpdateQuorumAboveOne, UpdateAll} :
          LET r == update_config(World, config.owner, u) IN
          r.err # "" /\ Transaction(r) = [ok |-> FALSE, w |-> World]

\* instantiate validates both fractions (contract.rs:32-33).
C13_InstantiateValidates ==
    /\ ~validate_quorum(Dec(3, 2))
    /\ ~validate_threshold(Dec(2, 1))
    /\ validate_quorum(Dec(1, 1))
    /\ validate_threshold(Dec(0, 1))

\* ------------------------------------------------------------------ C14
ConfigFields == {"owner", "cw20_token", "quorum", "threshold", "voting_period",
                 "timelock_period", "proposal_deposit", "snapshot_period"}

ConfigUpdates == {NoUpdate, UpdateQuorumAboveOne, UpdateOwner, UpdateAll}

\* update_config(sender, u) on the current state.
UpdateConfigFrame(sender, u) ==
    LET r == update_config(World, sender, u) IN
    /\ sender # config.owner =>
          (r.err = "Unauthorized" /\ Transaction(r) = [ok |-> FALSE, w |-> World])
    /\ sender = config.owner =>
          /\ r.err = ""
          /\ r.msgs = <<>>
          /\ \A f \in ConfigFields :
                r.w.config[f] = (IF IsSome(u[f]) THEN Unwrap(u[f]) ELSE config[f])
          /\ r.w.state = state
          /\ r.w.polls = polls
          /\ r.w.bank = bank
          /\ r.w.voters = voters
          /\ \A s2 \in Users, u2 \in ConfigUpdates :
                (update_config(r.w, s2, u2).err = "") = (s2 = r.w.config.owner)

\* C14: update_config by a sender other than config.owner fails with
\* Unauthorized and changes nothing; by the owner it replaces exactly the
\* fields given as Some, keeps the others and leaves State, polls, bank and
\* voter records alone; afterwards only the (possibly new) owner can update.
\* The config changes in no other way.
C14_UpdateConfigFrame ==
    /\ [](\A s \in Users, u \in ConfigUpdates : UpdateConfigFrame(s, u))
    /\ [][config' # config =>
             /\ \E u \in ConfigUpdates : UpdateConfig(config.owner, u)
             /\ state' = state /\ polls' = polls /\ bank' = bank]_vars

\* The owner handed the configuration to u2 while a poll was open and u1 had
\* staked: only the owner field changed, and u1 can no longer update.
C14_Witness ==
    /\ config = [instantiate("u1", InstantiateMsg).config EXCEPT !.owner = "u2"]
    /\ n_updates = 1
    /\ polls # <<>>
    /\ state.total_share > 0
    /\ update_config(World, "u1", UpdateAll).err = "Unauthorized"
    /\ update_config(World, "u2", UpdateAll).err = ""

\* ------------------------------------------------------------------ C15
ReceiveHooks == {StakeHook, GarbageHook, CreatePollHook(None)}

\* Receive{sender: user, amount, msg: hook} delivered by `from` in the current
\* state; a token contract delivers it after crediting the engine.
ReceiveResult(from, user, amount, hook) ==
    LET w == IF from \in Tokens
             THEN [World EXCEPT !.token_balance[from] = @ + amount]
             ELSE World
    IN receive_cw20(w, height, from, [sender |-> user, amount |-> amount, msg |-> hook])

ReceiveRejects(from, user, amount, hook) ==
    LET r == ReceiveResult(from, user, amount, hook) IN
    /\ from # config.cw20_token => r.err = "Unauthorized"
    /\ (from = config.cw20_token /\ hook = GarbageHook) => r.err = "DataShouldBeGiven"
    /\ (from # config.cw20_token \/ hook = GarbageHook) =>
          Transaction(r) = [ok |-> FALSE, w |-> World]

\* C15: a Receive whose sender is not the configured token contract fails with
\* Unauthorized, one whose payload is neither StakeVotingTokens nor CreatePoll
\* fails with DataShouldBeGiven, and both leave the whole state as it was; a
\* share grows or a poll appears only in a Receive step of the configured token.
C15_ReceiveAuthorization ==
    /\ [](\A from \in Tokens \cup Users \cup {EXT}, user \in Users,
             amount \in 0..2, hook \in ReceiveHooks :
                ReceiveRejects(from, user, amount, hook))
    /\ [][(\/ Len(polls') > Len(polls)
           \/ state'.poll_count # state.poll_count
           \/ \E u \in Users : bank'[u].share > bank[u].share) =>
             \E u \in Users, a \in 0..MaxBalance, hook \in ReceiveHooks :
                Receive(config.cw20_token, u, a, hook, MaxBalance)]_vars

\* The owner switched the configured token to CW20B and the stake then came
\* through CW20B; the former token is no longer accepted.
C15_Witness ==
    /\ config.cw20_token = CW20B
    /\ token_balance[CW20] = 0
    /\ state.total_share > 0
    /\ ReceiveResult(CW20, "u1", 1, StakeHook).err = "Unauthorized"
    /\ ReceiveResult(CW20B, "u1", 1, GarbageHook).err = "DataShouldBeGiven"

\* ------------------------------------------------------------------ C16
\* create_poll for a CreatePoll hook carrying `amount`, which the token has
\* already credited to the engine.
CreatePollResult(user, amount, e) ==
    create_poll([World EXCEPT !.token_balance[config.cw20_token] = @ + amount],
                height, user, amount, e)

CreatePollEffect(user, amount, e) ==
    LET r == CreatePollResult(user, amount, e)
        id == state.poll_count + 1
    IN
    /\ amount < config.proposal_deposit =>
          /\ r.err = "InsufficientProposalDeposit"
          /\ r.info = config.proposal_deposit
          /\ Transaction(r) = [ok |-> FALSE, w |-> World]
    /\ amount >= config.proposal_deposit =>
          /\ r.err = ""
          /\ r.w.state = [state EXCEPT !.poll_count = @ + 1,
                                       !.total_deposit = @ + amount]
          /\ Len(r.w.polls) = Len(polls) + 1
          /\ SubSeq(r.w.polls, 1, Len(polls)) = polls
          /\ r.w.polls[id] =
                [id |-> id, creator |-> user, status |-> "InProgress",
                 yes_votes |-> 0, no_votes |-> 0,
                 end_height |-> height + config.voting_period,
                 execute_data |-> e, deposit_amount |-> amount,
                 total_balance_at_end_poll |-> None, staked_amount |-> None]
          /\ r.w.bank = bank /\ r.w.voters = voters

\* C16: create_poll with less than config.proposal_deposit fails with
\* InsufficientProposalDeposit(required) and changes nothing; otherwise it
\* stores, under id = old poll_count + 1, an InProgress poll with zero tallies,
\* no snapshot, end_height = block height + voting_period and the transferred
\* deposit, and adds one to poll_count. The stored ids are exactly
\* 1..poll_count, poll_count never decreases and a stored poll keeps its id,
\* creator, end_height and deposit.
C16_CreatePoll ==
    /\ [](/\ \A user \in Users, amount \in 0..2, e \in {None, PayloadUnsorted} :
                CreatePollEffect(user, amount, e)
          /\ Len(polls) = state.poll_count
          /\ \A i \in DOMAIN polls : polls[i].id = i)
    /\ [][/\ state'.poll_count >= state.poll_count
          /\ \A i \in DOMAIN polls :
                /\ i \in DOMAIN polls'
                /\ polls'[i].id = polls[i].id
                /\ polls'[i].creator = polls[i].creator
                /\ polls'[i].end_height = polls[i].end_height
                /\ polls'[i].deposit_amount = polls[i].deposit_amount]_vars

\* A second poll was created after the first one had left InProgress, and a
\* further proposal without deposit is refused.
C16_Witness ==
    /\ state.poll_count = 2
    /\ polls[1].status # "InProgress"
    /\ polls[2].id = 2 /\ polls[2].status = "InProgress"
    /\ polls[2].end_height > polls[1].end_height
    /\ CreatePollResult("u1", 0, None).err = "InsufficientProposalDeposit"

\* ------------------------------------------------------------------ C17
\* floor(account.share * total_balance / total_share) of the sender; an account
\* without bank entry has share 0, and with total_share = 0 every share is 0.
VotingPower(sender) ==
    IF state.total_share = 0 THEN 0
    ELSE multiply_ratio(bank_may_load(World, sender).share, PoolBalance,
                        state.total_share)

CastVoteValid(sender, p, vote, amount) ==
    LET r == cast_vote(World, height, sender, p, vote, amount)
        open == /\ p \in DOMAIN polls
                /\ polls[p].status = "InProgress"
                /\ height <= polls[p].end_height
        vote_info == [vote |-> vote, balance |-> amount]
    IN
    /\ (p = 0 \/ p > state.poll_count) => r.err = "PollNotFound"
    /\ (p \in 1..state.poll_count /\ ~open) => r.err = "PollNotInProgress"
    /\ (open /\ ~poll_voter_exists(World, p, sender) /\ VotingPower(sender) < amount) =>
          r.err = "InsufficientFunds"
    /\ r.err # "" => Transaction(r) = [ok |-> FALSE, w |-> World]
    /\ r.err = "" =>
          /\ open /\ VotingPower(sender) >= amount
          /\ r.w.polls[p].yes_votes =
                polls[p].yes_votes + (IF vote = "Yes" THEN amount ELSE 0)
          /\ r.w.polls[p].no_votes =
                polls[p].no_votes + (IF vote = "No" THEN amount ELSE 0)
          /\ \A q \in DOMAIN polls : q # p => r.w.polls[q] = polls[q]
          /\ r.w.bank[sender].locked_balance =
                Append(bank[sender].locked_balance, <<p, vote_info>>)
          /\ r.w.bank[sender].share = bank[sender].share
          /\ \A u \in Users : u # sender => r.w.bank[u] = bank[u]
          /\ r.w.state = state

\* C17: cast_vote fails with PollNotFound for poll_id = 0 or above poll_count,
\* with PollNotInProgress when the poll is not InProgress or the block is past
\* end_height, and with InsufficientFunds when the sender's share is worth less
\* than the amount, for every sender and also when total_share = 0; a failure
\* changes nothing, a success adds the amount to the chosen tally only and
\* appends (poll_id, {vote, amount}) to the sender's locked_balance.
C17_CastVoteValidity ==
    \A sender \in Users, p \in 0..(MaxPolls + 1), vote \in Votes, amount \in 1..3 :
        CastVoteValid(sender, p, vote, amount)

\* The same, in the states where somebody holds a share.
C17_CastVoteWithShares ==
    state.total_share > 0 =>
        \A sender \in Users, p \in 0..(MaxPolls + 1), vote \in Votes, amount \in 1..3 :
            CastVoteValid(sender, p, vote, amount)

\* ------------------------------------------------------------------ C18
\* stake_voting_tokens for a StakeVotingTokens hook carrying `amount`, which the
\* token has already credited to the engine.
StakeResult(sender, amount) ==
    stake_voting_tokens([World EXCEPT !.token_balance[config.cw20_token] = @ + amount],
                        sender, amount)

\* floor(share * total_balance / total_share) of an account in world w.
RedemptionValue(w, user) ==
    IF w.state.total_share = 0 THEN 0
    ELSE multiply_ratio(w.bank[user].share,
                        query_token_balance(w) - w.state.total_deposit,
                        w.state.total_share)

StakeShare(amount) ==
    IF PoolBalance = 0 \/ state.total_share = 0 THEN amount
    ELSE (amount * state.total_share) \div PoolBalance

StakeEffect(sender, amount) ==
    LET r == StakeResult(sender, amount) IN
    /\ amount = 0 =>
          (r.err = "InsufficientFunds" /\ Transaction(r) = [ok |-> FALSE, w |-> World])
    /\ (amount > 0 /\ PoolBalance >= 0) =>
          /\ r.err = ""
          /\ r.w.bank[sender].exists
          /\ r.w.bank[sender].share = bank[sender].share + StakeShare(amount)
          /\ r.w.bank[sender].locked_balance = bank[sender].locked_balance
          /\ r.w.state = [state EXCEPT !.total_share = @ + StakeShare(amount)]
          /\ r.w.polls = polls
          /\ \A other \in Users \ {sender} :
                /\ r.w.bank[other] = bank[other]
                /\ RedemptionValue(r.w, other) >= RedemptionValue(World, other)

\* C18: a stake of 0 fails with InsufficientFunds; otherwise, with total_balance
\* the pool before the incoming transfer, the credited share is the amount when
\* total_balance = 0 or total_share = 0 and floor(amount * total_share /
\* total_balance) otherwise, it is added to the account and to total_share, and
\* no other account's share is worth less afterwards.
C18_StakeShareFormula ==
    \A sender \in Users, amount \in 0..3 : StakeEffect(sender, amount)

\* Two accounts with one share each over a pool of 4, of which 1 is a forfeited
\* deposit: one of the stakes was credited fewer shares than tokens (2 tokens
\* for floor(2 * 1 / 2) = 1 share, or 1 token for floor(1 * 2 / 3) = 0).
C18_Witness ==
    /\ bank["u1"].share = 1 /\ bank["u2"].share = 1
    /\ state.total_share = 2
    /\ PoolBalance = 4
    /\ RedemptionValue(World, "u1") = 2

\* ------------------------------------------------------------------ C19
\* msgs holds one WasmMsg::Execute per payload in e, each payload once, in
\* ascending `order`.
EmitsEachOnceInOrder(e, msgs) ==
    LET n == Len(e) IN
    /\ Len(msgs) = n
    /\ \E g \in [1..n -> 1..n] :
          /\ \A i, j \in 1..n : i # j => g[i] # g[j]
          /\ \A i \in 1..n : msgs[i] = WasmExecuteMsg(e[g[i]].contract, e[g[i]].msg)
          /\ \A i, j \in 1..n : i < j => e[g[i]].order < e[g[j]].order

ExecutionOrder(p) ==
    LET r == execute_poll_messages(World, GOV, p) IN
    /\ r.err = ""
    /\ r.w.polls[p].status = "Executed"
    /\ <<"Executed", p>> \in r.w.poll_indexer
    /\ IF IsSome(polls[p].execute_data)
       THEN EmitsEachOnceInOrder(Unwrap(polls[p].execute_data), r.msgs)
       ELSE r.msgs = <<>>

\* C19: execute_poll_messages emits one message per stored payload of the poll,
\* each exactly once, in ascending `order` whatever the order they were stored
\* in; without payloads it emits nothing and the poll still becomes Executed.
\* The external contract sees the payloads of an executed poll in that order.
C19_ExecutionOrder ==
    /\ [](\A p \in DOMAIN polls : ExecutionOrder(p))
    /\ [][\A p \in DOMAIN polls :
             (polls[p].status # "Executed" /\ polls'[p].status = "Executed") =>
                 ext_log' = ext_log \o PayloadEffects(p)]_vars

\* The poll whose payloads were stored as (order 2, order 1) was executed and
\* the external contract received them as order 1, then order 2.
C19_Witness ==
    /\ polls # <<>>
    /\ polls[1].execute_data = PayloadUnsorted
    /\ polls[1].status = "Executed"
    /\ ext_log = <<"a", "b">>

\* ------------------------------------------------------------------ C20
\* Scenario E3: u1 is the only staker with 100 staked for share 100 and has
\* cast Yes with 60 on poll 1, which is still InProgress.
ScenarioE3 ==
    /\ bank["u1"].exists /\ bank["u1"].share = 100
    /\ state.total_share = 100
    /\ PoolBalance = 100
    /\ ~bank["u2"].exists
    /\ polls # <<>> /\ polls[1].status = "InProgress"
    /\ [poll_id |-> 1, voter |-> "u1", vote |-> "Yes", balance |-> 60] \in voters
    /\ bank["u1"].locked_balance = <<<<1, [vote |-> "Yes", balance |-> 60]>>>>

\* withdraw(None) by u1 in scenario E3: share 100 - 60 = 40 is withdrawn for
\* 40 tokens, share 60 stays.
WithdrawFree(oc) ==
    LET r == withdraw_voting_tokens(World, "u1", None, oc)
        d == Transaction(r)
    IN /\ r.err = ""
       /\ r.msgs = <<TransferMsg(config.cw20_token, "u1", (40 * PoolBalance) \div 100)>>
       /\ d.ok
       /\ d.w.bank["u1"].share = 100 - 40
       /\ d.w.state.total_share = 100 - 40
       /\ d.w.token_balance[config.cw20_token] = token_balance[config.cw20_token] - 40

NothingStakedWithoutEntry ==
    \A u \in Users, a \in {None, Some(40), Some(50)}, oc \in BOOLEAN :
        ~bank[u].exists => withdraw_voting_tokens(World, u, a, oc).err = "NothingStaked"

\* C20 as stated: in scenario E3 withdraw(amount = 50) succeeds and
\* withdraw(None) withdraws share 40; without bank entry NothingStaked.
C20_E3_WithdrawFiftyAllowed ==
    /\ NothingStakedWithoutEntry
    /\ ScenarioE3 =>
          \A oc \in BOOLEAN :
              /\ withdraw_voting_tokens(World, "u1", Some(50), oc).err = ""
              /\ WithdrawFree(oc)

\* C20, amended: in scenario E3 withdraw(amount = 50) fails with
\* InvalidWithdrawAmount, because locked_share 60 + withdraw_share 50 exceeds
\* share 100, while withdraw(amount = 40) succeeds; withdraw(None) withdraws
\* share 100 - 60 = 40 and transfers floor(40 * total_balance / total_share) =
\* 40 tokens; an account without bank entry gets NothingStaked.
C20_E3_WithdrawLocking ==
    /\ NothingStakedWithoutEntry
    /\ ScenarioE3 =>
          \A oc \in BOOLEAN :
              /\ withdraw_voting_tokens(World, "u1", Some(50), oc).err
                    = "InvalidWithdrawAmount"
              /\ LET r == withdraw_voting_tokens(World, "u1", Some(40), oc) IN
                 /\ r.err = ""
                 /\ r.w.bank["u1"].share = 60
                 /\ r.msgs = <<TransferMsg(config.cw20_token, "u1", 40)>>
              /\ WithdrawFree(oc)

\* u1 withdrew what was free in scenario E3: share 60 over a pool of 60 remains
\* behind the vote of 60 on the poll still in progress.
C20_Witness ==
    /\ bank["u1"].share = 60
    /\ state.total_share = 60
    /\ PoolBalance = 60
    /\ polls # <<>> /\ polls[1].status = "InProgress"
    /\ [poll_id |-> 1, voter |-> "u1", vote |-> "Yes", balance |-> 60] \in voters
    /\ withdraw_voting_tokens(World, "u1", Some(1), TRUE).err = "InvalidWithdrawAmount"

\* ------------------------------------------------------------------ C28
\* How often the external contract received data x.
Received(x) == Cardinality({i \in DOMAIN ext_log : ext_log[i] = x})

\* The polls whose payload list is the call carrying data "a".
PollsCarryingExt == {p \in DOMAIN polls : polls[p].execute_data = PayloadExt}

\* C28: the payloads of a poll are emitted at most once in its lifetime: the
\* external contract has received the call of PayloadExt at most once per poll
\* that carries it, and on an Executed poll execute_poll fails and
\* execute_poll_messages called by the engine emits nothing.
C28_PayloadsAtMostOnce ==
    /\ Received("a") <= Cardinality(PollsCarryingExt)
    /\ \A p \in DOMAIN polls :
          polls[p].status = "Executed" =>
              /\ execute_poll(World, height, p).err = "PollNotPassed"
              /\ LET r == execute_poll_messages(World, GOV, p) IN
                 r.err # "" \/ r.msgs = <<>>

\* execute_poll itself never runs an Executed poll again.
C28_ExecutePollOnce ==
    \A p \in DOMAIN polls :
        polls[p].status = "Executed" =>
            /\ execute_poll(World, height, p).err = "PollNotPassed"
            /\ Transaction(execute_poll(World, height, p)) = [ok |-> FALSE, w |-> World]

\* ------------------------------------------------------------------ C29
\* C29: end_poll succeeds on every InProgress poll once the block height has
\* reached end_height, whatever happened before: it aborts neither on a zero
\* quorum denominator nor on a total_deposit underflow, and its transaction
\* commits with the poll in a terminal status and the deposit out of
\* total_deposit.
C29_EndPollAlwaysCloses ==
    \A p \in DOMAIN polls :
        (polls[p].status = "InProgress" /\ height >= polls[p].end_height) =>
            LET r == end_poll(World, height, p)
                d == Transaction(r)
            IN /\ r.err = ""
               /\ d.ok
               /\ d.w.polls[p].status \in {"Passed", "Rejected"}
               /\ d.w.state.total_deposit = state.total_deposit - polls[p].deposit_amount

\* The same for polls whose quorum denominator is not zero.
C29_ClosesWithDenominator ==
    \A p \in DOMAIN polls :
        (/\ polls[p].status = "InProgress" /\ height >= polls[p].end_height
         /\ (state.total_share = 0 \/ StakedWeight(p) > 0)) =>
            LET r == end_poll(World, height, p)
                d == Transaction(r)
            IN /\ r.err = ""
               /\ d.ok
               /\ d.w.polls[p].status \in {"Passed", "Rejected"}
               /\ d.w.state.total_deposit = state.total_deposit - polls[p].deposit_amount

\* ------------------------------------------------------------------ C30
\* The largest balance among u's votes on polls that are InProgress in world w.
LockedVotes(w, u) ==
    SetMax({r.balance : r \in {v \in w.voters :
                /\ v.voter = u
                /\ w.polls[v.poll_id].status = "InProgress"}})

\* After the transaction of withdraw(amount) by u, what is left of u's share is
\* worth at least u's largest vote on an InProgress poll.
StaysBacked(u, amount, oc) ==
    LET d == Transaction(withdraw_voting_tokens(World, u, amount, oc)) IN
    d.ok => RedemptionValue(d.w, u) >= LockedVotes(d.w, u)

\* C30: after every successful withdraw_voting_tokens the caller's remaining
\* redemption value floor(remaining_share * new_total_balance / new_total_share)
\* is at least the maximum balance among the caller's votes on InProgress polls.
C30_LockedVotesStayBacked ==
    \A u \in Users, a \in WithdrawAmounts, oc \in BOOLEAN : StaysBacked(u, a, oc)


\* ------------------------------------------------------------------ C27
\* The addresses whose execute_dao for token t is forwarded, in token storage n.
CanActAs(n, t) ==
    {s \in Addresses : cw721_execute_dao(n, s, t, "Exit").msgs # <<>>}

\* execute_dao in token storage n: a forward is emitted only for the token's
\* owner and carries the caller, the token id and the message; any other caller
\* of an existing token gets Unauthorized.
ExecuteDaoAuthorized(n) ==
    \A s \in Addresses, t \in TokenIds :
        LET r == cw721_execute_dao(n, s, t, "Exit") IN
        /\ r.n = n
        /\ r.msgs # <<>> =>
              /\ r.err = ""
              /\ IsSome(n.tokens[t]) /\ Unwrap(n.tokens[t]).owner = s
              /\ r.msgs = <<ReceiveNftMsg(Unwrap(n.gov_contract), s, t, "Exit")>>
        /\ (IsSome(n.tokens[t]) /\ Unwrap(n.tokens[t]).owner # s) =>
              (r.err = "Unauthorized" /\ r.msgs = <<>>)

\* mint and transfer_nft succeed only for the administrative owner, and a mint
\* of an existing token id fails with Claimed and changes nothing.
MintTransferAuthorized(n) ==
    \A s \in Addresses, t \in TokenIds, o \in Addresses :
        LET m == cw721_mint(n, s, t, o)
            x == cw721_transfer_nft(n, s, o, t)
        IN /\ m.err = "" => (s = n.owner /\ ~IsSome(n.tokens[t]))
           /\ x.err = "" => s = n.owner
           /\ s # n.owner => (m.err = "Unauthorized" /\ x.err = "Unauthorized")
           /\ m.err # "" => m.n = n
           /\ x.err # "" => x.n = n
           /\ (s = n.owner /\ IsSome(n.tokens[t])) => (m.err = "Claimed" /\ m.n = n)

\* C27: execute_dao forwards {sender, token_id, msg} to gov_contract only for
\* the current owner of the token and otherwise fails with Unauthorized; mint
\* and transfer_nft succeed only for the administrative owner; a mint of an
\* existing token id fails with Claimed, leaving owner and count; so exactly one
\* address can act as a given membership id.
C27_GatewayAuthorization ==
    /\ ExecuteDaoAuthorized(nft)
    /\ MintTransferAuthorized(nft)
    /\ \A t \in TokenIds :
          IsSome(nft.tokens[t]) => CanActAs(nft, t) = {Unwrap(nft.tokens[t]).owner}

\* The mint and transfer part of C27.
C27_MintTransferAuthorization ==
    /\ MintTransferAuthorized(nft)
    /\ nft.token_count = Cardinality({t \in TokenIds : IsSome(nft.tokens[t])})
    /\ \A t \in TokenIds : Cardinality(CanActAs(nft, t)) <= 1

\* The execute_dao part of C27 in a token storage that holds a gov_contract.
C27_GatewayWithGovContract ==
    LET n == [nft EXCEPT !.gov_contract = Some(GOV)] IN
    /\ ExecuteDaoAuthorized(n)
    /\ \A t \in TokenIds :
          IsSome(n.tokens[t]) => CanActAs(n, t) = {Unwrap(n.tokens[t]).owner}


\* ------------------------------------------------------------------ C21
\* The sum of isqrt(balance) over the accounts of S.
RECURSIVE SqrtShareSum(_, _)
SqrtShareSum(g, S) ==
    IF S = {} THEN 0
    ELSE LET m == CHOOSE x \in S : TRUE
         IN isqrt(g.bank[m].balance) + SqrtShareSum(g, S \ {m})

\* C21: after any sequence of mint, burn, transfer_from, exit, votes,
\* cancellations and (un)delegations every account's share is the integer
\* square root of its balance and state.total_share is the sum of them.
C21_QuadraticShare ==
    /\ \A m \in Members : nge.bank[m].share = isqrt(nge.bank[m].balance)
    /\ nge.state.total_share = SqrtShareSum(nge, Members)

\* A holds 3 (share 1), B holds 4 (share 2), A has delegated to B and B has
\* voted for both.
C21_Witness ==
    /\ nge.bank["A"].balance = 3 /\ nge.bank["A"].share = 1
    /\ nge.bank["B"].balance = 4 /\ nge.bank["B"].share = 2
    /\ nge.state.total_share = 3
    /\ nge.bank["A"].delegate_to = Some("B")
    /\ \E r \in nge.voters : r.voter = "A" /\ r.balance = 1
    /\ \E r \in nge.voters : r.voter = "B" /\ r.balance = 2


\* ------------------------------------------------------------------ C22
\* The voter records of member m in polls that are InProgress in storage g.
OpenRecords(g, m) ==
    {r \in g.voters : r.voter = m /\ g.polls[r.poll_id].status = "InProgress"}

\* C22 as stated: a voter whose delegate_to is set has no voter record in any
\* poll whose status is InProgress.
C22_DelegatedHasNoRecord ==
    \A m \in Members : IsSome(nge.bank[m].delegate_to) => OpenRecords(nge, m) = {}

\* A delegated voter cannot cast: every cast_vote of its own fails, with
\* AlreadyDelegated when the poll is open and holds no record of the voter.
DelegatedCannotCast ==
    \A m \in Members, p \in NgePollIds, v \in {"Yes", "No"} :
        IsSome(nge.bank[m].delegate_to) =>
            LET r == nge_cast_vote(nge, height, m, p, v) IN
            /\ r.err # "" /\ r.g = nge
            /\ (/\ nge_poll_exists(nge, p)
                /\ nge.polls[p].status = "InProgress" /\ height <= nge.polls[p].end_height
                /\ nge_poll_voter(nge, p, m) = {}) => r.err = "AlreadyDelegated"

\* delegate_vote succeeds only for a voter without a record in an open poll.
DelegateNeedsNoOpenVote ==
    \A m \in Members, d \in Members :
        nge_delegate_vote(nge, m, d).err = "" => OpenRecords(nge, m) = {}

\* While delegate_to is set, a new record of the voter in an open poll comes
\* with a new record of its delegate in the same poll with the same option.
RecordsOnlyFromDelegate ==
    \A m \in Members :
        IsSome(nge'.bank[m].delegate_to) =>
            \A r \in OpenRecords(nge', m) :
                nge_poll_voter(nge, r.poll_id, m) = {} =>
                    LET d == Unwrap(nge'.bank[m].delegate_to) IN
                    /\ nge.bank[m].delegate_to = Some(d)
                    /\ d # m
                    /\ nge_poll_voter(nge, r.poll_id, d) = {}
                    /\ \E x \in nge_poll_voter(nge', r.poll_id, d) : x.vote = r.vote

\* C22 (amended): a voter whose delegate_to is set cannot cast a vote itself,
\* delegate_vote succeeds only for a voter with no record in an InProgress poll,
\* and while delegate_to is set a record of the voter in an InProgress poll is
\* written only by a cast_vote of its delegate on its behalf.
C22_DelegationExcludesOwnVotes ==
    /\ [](DelegatedCannotCast /\ DelegateNeedsNoOpenVote)
    /\ [][RecordsOnlyFromDelegate]_vars

\* A has delegated to B and holds a record in an open poll, next to B's.
C22_Witness ==
    /\ nge.bank["A"].delegate_to = Some("B")
    /\ OpenRecords(nge, "A") # {}
    /\ OpenRecords(nge, "B") # {}
    /\ nge.bank["B"].delegated_from = <<"A">>


\* ------------------------------------------------------------------ C23
\* The sum of the current shares of the members of the sequence s.
RECURSIVE ShareSum(_, _)
ShareSum(g, s) == IF s = <<>> THEN 0 ELSE g.bank[Head(s)].share + ShareSum(g, Tail(s))

SeqRange(s) == {s[i] : i \in DOMAIN s}

Tally(g, p, v) == IF v = "Yes" THEN g.polls[p].yes_votes ELSE g.polls[p].no_votes

Other(v) == IF v = "Yes" THEN "No" ELSE "Yes"

\* The cast of a delegate b on an open poll without a record of b: one record
\* for b and one for each of its delegators, each with the member's share and
\* the option v, and the tally of v grows by the sum of these shares.
CascadeCast(b, p, v) ==
    LET r == nge_cast_vote(nge, height, b, p, v)
        group == {b} \cup SeqRange(nge.bank[b].delegated_from)
    IN /\ r.err = ""
       /\ \A m \in group :
              nge_poll_voter(r.g, p, m) =
                  {[poll_id |-> p, voter |-> m, vote |-> v, balance |-> nge.bank[m].share]}
       /\ \A m \in Members \ group : nge_poll_voter(r.g, p, m) = nge_poll_voter(nge, p, m)
       /\ Tally(r.g, p, v) = Tally(nge, p, v) + nge.bank[b].share
                                 + ShareSum(nge, nge.bank[b].delegated_from)
       /\ Tally(r.g, p, Other(v)) = Tally(nge, p, Other(v))

\* undelegate_vote of a delegated voter a: its delegate_to is empty afterwards
\* and the delegate's delegated_from has lost a and nothing else.
UndelegateClears(a) ==
    LET b == Unwrap(nge.bank[a].delegate_to)
        r == nge_undelegate_vote(nge, a)
    IN /\ r.err = ""
       /\ r.g.bank[a].delegate_to = None
       /\ SeqRange(r.g.bank[b].delegated_from) = SeqRange(nge.bank[b].delegated_from) \ {a}
       /\ Len(r.g.bank[b].delegated_from) = Len(nge.bank[b].delegated_from) - 1

NgePollOpen(p) ==
    /\ nge_poll_exists(nge, p)
    /\ nge.polls[p].status = "InProgress"
    /\ height <= nge.polls[p].end_height

\* cancel_vote(m, p) on the current storage.
CancelUndoes(m, p) ==
    LET r == nge_cancel_vote(nge, height, m, p)
        recs == nge_poll_voter(nge, p, m)
    IN /\ recs = {} => (r.err = "NotYetVoted" /\ r.g = nge)
       /\ (recs # {} /\ ~NgePollOpen(p)) => (r.err # "" /\ r.g = nge)
       /\ (recs # {} /\ NgePollOpen(p)) =>
             \E vote_info \in recs :
                 /\ recs = {vote_info}
                 /\ r.err = ""
                 /\ Tally(r.g, p, vote_info.vote) = Tally(nge, p, vote_info.vote) - vote_info.balance
                 /\ Tally(r.g, p, Other(vote_info.vote)) = Tally(nge, p, Other(vote_info.vote))
                 /\ nge_poll_voter(r.g, p, m) = {}
                 /\ \A i \in DOMAIN r.g.bank[m].locked_share :
                        r.g.bank[m].locked_share[i].poll_id # p

\* cast_vote followed by cancel_vote by a voter without delegators.
CastThenCancel(m, p, v) ==
    LET c == nge_cast_vote(nge, height, m, p, v)
        x == nge_cancel_vote(c.g, height, m, p)
    IN (c.err = "" /\ nge.bank[m].delegated_from = <<>>) =>
           /\ x.err = ""
           /\ x.g.polls[p].yes_votes = nge.polls[p].yes_votes
           /\ x.g.polls[p].no_votes = nge.polls[p].no_votes
           /\ nge_poll_voter(x.g, p, m) = {}

\* C24: cancel_vote fails with NotYetVoted without a voter record and fails when
\* the poll is not InProgress or has expired, changing nothing; on success the
\* tally of the recorded option decreases by exactly the recorded balance, the
\* record is deleted and the voter's locked_share no longer contains the poll;
\* cast_vote followed by cancel_vote by a voter without delegators restores
\* yes_votes and no_votes.
C24_CancelUndoesVote ==
    /\ \A m \in Members, p \in NgePollIds : CancelUndoes(m, p)
    /\ \A m \in Members, p \in NgePollIds, v \in {"Yes", "No"} : CastThenCancel(m, p, v)

\* A voted No with share 1 and holds share 2 now; B voted Yes; the poll is open.
C24_Witness ==
    /\ NgePollOpen(1)
    /\ nge_poll_voter(nge, 1, "A") = {[poll_id |-> 1, voter |-> "A", vote |-> "No", balance |-> 1]}
    /\ nge.bank["A"].share = 2
    /\ nge_poll_voter(nge, 1, "B") # {}
    /\ nge.polls[1].yes_votes = nge.bank["B"].share /\ nge.polls[1].no_votes = 1


\* ------------------------------------------------------------------ C25
\* The larger of two numbers.
Max2(a, b) == IF a > b THEN a ELSE b

\* The decision of the fungible engine: the quorum fraction is 0 when nothing is
\* staked and tallied / staked otherwise.
DecisionOf(yes, tallied, staked, total_share, cfg) ==
    LET quorum_missed == IF total_share = 0 THEN decimal_lt(0, 1, cfg.quorum)
                         ELSE decimal_lt(tallied, staked, cfg.quorum)
    IN IF tallied = 0 \/ quorum_missed THEN "Rejected"
       ELSE IF decimal_gt(yes, tallied, cfg.threshold) THEN "Passed"
       ELSE "Rejected"

\* end_poll of a poll that is InProgress and has reached its end_height.
EndPollQuorum(p) ==
    LET a_poll == nge.polls[p]
        r == nge_end_poll(nge, height, p)
        tallied == a_poll.yes_votes + a_poll.no_votes
        staked == Max2(a_poll.total_share_at_start_poll, nge.state.total_share)
        status == DecisionOf(a_poll.yes_votes, tallied, staked, nge.state.total_share,
                             nge.config)
    IN /\ r.err = ""
       /\ r.g = [nge EXCEPT !.polls[p].status = status,
                            !.polls[p].total_share_at_end_poll = Some(nge.state.total_share)]

\* create_poll snapshots the current total_share.
CreatePollSnapshots ==
    \A m \in Members :
        nge_create_poll(nge, height, m).g = nge' =>
            nge'.polls[nge'.state.poll_count].total_share_at_start_poll
                = nge.state.total_share

\* C25: at end_poll with total_share not 0 the quorum fraction is tallied /
\* max(total_share_at_start_poll, current total_share), total_share_at_start_poll
\* being the total_share at create_poll, so burns during the vote do not lower
\* the denominator and mints raise it; the decision is otherwise that of the
\* fungible engine and total_share_at_end_poll records the current total_share.
C25_QuorumDenominator ==
    /\ [](\A p \in DOMAIN nge.polls :
             (nge.polls[p].status = "InProgress" /\ height >= nge.polls[p].end_height)
                 => EndPollQuorum(p))
    /\ [][CreatePollSnapshots]_vars

\* A poll created with total_share 3 and ended after a burn with total_share 1:
\* the one Yes share is a third of the electorate at creation and the poll is
\* Rejected.
C25_Witness ==
    /\ nge.state.poll_count = 1
    /\ nge.polls[1].status = "Rejected"
    /\ nge.polls[1].total_share_at_start_poll = 3
    /\ nge.polls[1].total_share_at_end_poll = Some(1)
    /\ nge.polls[1].yes_votes = 1 /\ nge.polls[1].no_votes = 0

\* ------------------------------------------------------------------ C26
\* mint(a, x) immediately followed by burn(a, x) on the current storage.
MintBurnRestores(a, x) ==
    LET m == nge_bank_mint(nge, a, x)
        b == nge_bank_burn(m, a, x)
    IN /\ m.bank[a].balance = nge.bank[a].balance + x
       /\ b.err = ""
       /\ b.g.bank[a].balance = nge.bank[a].balance
       /\ b.g.bank[a].share = nge.bank[a].share
       /\ b.g.state.total_share = nge.state.total_share

\* C26: for every account A with no locked shares and every x > 0, mint(A, x)
\* immediately followed by burn(A, x) restores A's balance, A's share and
\* state.total_share.
C26_MintBurnRoundTrip ==
    \A a \in Members, x \in 1..MaxNgeBalance :
        nge_locked_vote_reduction(nge, a).locked = 0 => MintBurnRestores(a, x)

\* A holds 3 (share 1) with nothing locked, so that a mint of 1 raises its share
\* to 2, while B has a vote locked in an open poll.
C26_Witness ==
    /\ nge.bank["A"].balance = 3 /\ nge.bank["A"].share = 1
    /\ nge.bank["A"].locked_share = <<>>
    /\ nge.bank["B"].locked_share # <<>> /\ nge.bank["B"].share = 1
    /\ nge.state.poll_count = 1 /\ nge.polls[1].status = "InProgress"
    /\ nge.state.total_share = 2


\* ------------------------------------------------------------------ C31
\* The tokens the engine pays out in the transaction of withdraw(amount) by u.
WithdrawPayout(u, amount, oc) ==
    LET d == Transaction(withdraw_voting_tokens(World, u, amount, oc)) IN
    IF d.ok THEN query_token_balance(World) - query_token_balance(d.w) ELSE 0

\* C31: every successful withdraw_voting_tokens, with or without an explicit
\* amount, transfers at most floor(account.share * total_balance / total_share)
\* tokens, total_balance being token_balance(self) - total_deposit before the
\* call.
C31_WithdrawPayoutBounded ==
    \A u \in Users, a \in WithdrawAmounts, oc \in BOOLEAN :
        WithdrawPayout(u, a, oc) <= RedemptionValue(World, u)

\* The part of C31 without an explicit amount.
C31_WithdrawAllBounded ==
    \A u \in Users, oc \in BOOLEAN :
        WithdrawPayout(u, None, oc) <= RedemptionValue(World, u)

\* ------------------------------------------------------------------ C32
\* The sum of balance over a set of voter records.
RECURSIVE RecordSum(_)
RecordSum(S) ==
    IF S = {} THEN 0
    ELSE LET r == CHOOSE x \in S : TRUE IN r.balance + RecordSum(S \ {r})

\* The voter records of poll p with the given option.
RecordsWith(p, vote) == {r \in voters : r.poll_id = p /\ r.vote = vote}

\* The tallies of an InProgress poll are the sums of its voter records, each
\* record has exactly one locked_balance entry with the same VoteInfo, and each
\* entry of an InProgress poll has its record.
TalliesMatchRecords ==
    \A p \in InProgressPolls :
        /\ polls[p].yes_votes = RecordSum(RecordsWith(p, "Yes"))
        /\ polls[p].no_votes = RecordSum(RecordsWith(p, "No"))
        /\ \A r \in voters :
              r.poll_id = p =>
                  /\ r.voter \in Users
                  /\ Cardinality(LockedEntries(p, r.voter)) = 1
                  /\ \A i \in LockedEntries(p, r.voter) :
                         bank[r.voter].locked_balance[i][2] =
                             [vote |-> r.vote, balance |-> r.balance]
        /\ \A u \in Users :
              LockedEntries(p, u) # {} => \E r \in voters : r.poll_id = p /\ r.voter = u

\* The tallies of a poll that has left InProgress stay as they are.
ClosedTalliesFrozen ==
    \A p \in DOMAIN polls :
        polls[p].status # "InProgress" =>
            /\ p \in DOMAIN polls'
            /\ polls'[p].status # "InProgress"
            /\ polls'[p].yes_votes = polls[p].yes_votes
            /\ polls'[p].no_votes = polls[p].no_votes

\* C32: for every InProgress poll yes_votes and no_votes are the sums of balance
\* over its voter records with vote Yes and No, each voter record corresponds to
\* exactly one entry with the same VoteInfo in the voter's locked_balance, and
\* once a poll leaves InProgress its tallies never change.
C32_TallyConsistency ==
    /\ []TalliesMatchRecords
    /\ [][ClosedTalliesFrozen]_vars

\* An open poll on which u1 voted Yes and u2 voted No.
C32_Witness ==
    /\ 1 \in InProgressPolls
    /\ \E r \in RecordsWith(1, "Yes") : r.voter = "u1"
    /\ \E r \in RecordsWith(1, "No") : r.voter = "u2"
    /\ polls[1].yes_votes > 0 /\ polls[1].no_votes > 0


\* ------------------------------------------------------------------ C33
\* The polls of the non-fungible engine that are InProgress.
NgeInProgressPolls == {p \in DOMAIN nge.polls : nge.polls[p].status = "InProgress"}

\* The voter records of poll p.
NgeRecords(p) == {r \in nge.voters : r.poll_id = p}

\* The entries of m's locked_share for poll p.
NgeLockedEntries(p, m) ==
    {i \in DOMAIN nge.bank[m].locked_share : nge.bank[m].locked_share[i].poll_id = p}

\* The share of m that its locked_share entries count for poll p.
NgeLockedSum(p, m) ==
    LET entries == nge.bank[m].locked_share
        RECURSIVE Upto(_)
        Upto(n) == IF n = 0 THEN 0
                   ELSE Upto(n - 1) + (IF entries[n].poll_id = p THEN entries[n].balance ELSE 0)
    IN Upto(Len(entries))

\* C33: for every InProgress poll yes_votes + no_votes equals the sum of balance
\* over the poll's current voter records and no account's share is counted more
\* than once in it, across sequences in which a delegate casts (cascading to its
\* delegators), cancels, and votes again, and in which delegators undelegate.
C33_NgeTallyConsistency ==
    \A p \in NgeInProgressPolls :
        /\ nge.polls[p].yes_votes + nge.polls[p].no_votes = RecordSum(NgeRecords(p))
        /\ \A m \in Members :
              /\ Cardinality(nge_poll_voter(nge, p, m)) <= 1
              /\ NgeLockedSum(p, m) = RecordSum(nge_poll_voter(nge, p, m))

\* The part of C33 that holds: a member has at most one record per poll, every
\* record has a locked_share entry, and the tally is never below the records.
C33_RecordsWithinTally ==
    \A p \in NgeInProgressPolls :
        /\ nge.polls[p].yes_votes + nge.polls[p].no_votes >= RecordSum(NgeRecords(p))
        /\ \A m \in Members :
              /\ Cardinality(nge_poll_voter(nge, p, m)) <= 1
              /\ nge_poll_voter(nge, p, m) # {} => NgeLockedEntries(p, m) # {}

=============================================================================
